---- MODULE Spec2Model ----
(***************************************************************************)
(* Deltamed .eeg header anonymisation: change_field, extract_header and    *)
(* anonymise_eeg of utils.py, and the older anonymise_eeg of anonymiser.py *)
(* (the same code is repeated in dataset_maker.py).                        *)
(*                                                                         *)
(* A file is a sequence of bytes (0..255); the byte at offset i of file f  *)
(* is f[i + 1].  A str is a sequence of code points.                       *)
(***************************************************************************)
EXTENDS Integers, Sequences, FiniteSets, TLC

\* ------------------------------------------------------------------------
\* Bounds of the model
\* ------------------------------------------------------------------------
\* change_field harness: longest buffer, longest content, largest byte value
MaxBuf == 3
MaxContent == 2
MaxByte == 1
\* anonymise_eeg: bytes after the header in a recording, length of a
\* truncated recording, bytes moved by one step of shutil.copyfile and of
\* the header write loop between two observations, calls and interruptions
BodyLen == 5
ShortLen == 500
CopyStride == 400
WriteStride == 240
MaxRuns == 2
MaxInterrupts == 1

\* ------------------------------------------------------------------------
\* Bytes, strings and Python's None
\* ------------------------------------------------------------------------
\* None (the "leave untouched" sentinel of the field arguments)
None == <<-1>>

\* the default filler b'\x00' of change_field
FILLER == 0

Min(a, b) == IF a < b THEN a ELSE b

\* ------------------------------------------------------------------------
\* change_field (utils.py; identical in anonymiser.py and dataset_maker.py)
\* ------------------------------------------------------------------------
\* faulty variant: the else branch is lost, the rest of the field keeps its old bytes
change_field_step_nopad(st, index, start, data, filler) ==
    IF st.raised THEN st
    ELSE IF index >= Len(st.array)
    THEN [st EXCEPT !.raised = TRUE]
    ELSE IF index - start < Len(data)
    THEN [array |-> [st.array EXCEPT ![index + 1] = data[index - start + 1]],
          used |-> st.used + 1, raised |-> FALSE]
    ELSE st

\* One iteration of "for index in range(start, stop)".  st holds the
\* buffer, the number of bytes taken from content so far, and whether an
\* assignment array[index] has raised IndexError (index past the end); once
\* it has, the remaining iterations do not run.
change_field_step(st, index, start, data, filler) ==
    IF st.raised THEN st
    ELSE IF index >= Len(st.array)
    THEN [st EXCEPT !.raised = TRUE]
    ELSE IF index - start < Len(data)
    THEN [array |-> [st.array EXCEPT ![index + 1] = data[index - start + 1]],
          used |-> st.used + 1, raised |-> FALSE]
    ELSE [array |-> [st.array EXCEPT ![index + 1] = filler],
          used |-> st.used, raised |-> FALSE]

\* The iterations index = lo, lo + 1, ..., hi - 1, in that order (the range
\* is halved only to keep the evaluation shallow).
RECURSIVE change_field_loop(_, _, _, _, _, _)
change_field_loop(st, lo, hi, start, data, filler) ==
    IF lo >= hi THEN st
    ELSE IF hi - lo = 1 THEN change_field_step(st, lo, start, data, filler)
    ELSE LET mid == lo + ((hi - lo) \div 2)
             first == change_field_loop(st, lo, mid, start, data, filler)
         IN  IF first.raised THEN first
             ELSE change_field_loop(first, mid, hi, start, data, filler)

\* faulty variant: a field exactly as wide as the content is reported too narrow
change_field_return_strict(start, stop, data) == stop - start > Len(data)

\* the value returned by change_field
change_field_return(start, stop, data) == stop - start >= Len(data)

\* change_field(array, start, stop, content, filler): the mutated buffer,
\* the return value (when it returns) and whether it raised
change_field(array, start, stop, data, filler) ==
    LET r == change_field_loop([array |-> array, used |-> 0, raised |-> FALSE],
                               start, stop, start, data, filler)
    IN  [array |-> r.array, used |-> r.used, raised |-> r.raised,
         ret |-> change_field_return(start, stop, data)]


\* ------------------------------------------------------------------------
\* Header layout
\* ------------------------------------------------------------------------
\* number of bytes extract_header of utils.py reads
HEADER_SIZE == 720

\* the older extract_header stops after the line that makes len(header) > 719
OLD_HEADER_LIMIT == 719

NEWLINE == 10

\* faulty variant: the Name range runs one byte into Surname
FieldSpecWideName ==
    << [start |-> 314, stop |-> 365], [start |-> 365, stop |-> 394],
       [start |-> 394, stop |-> 404], [start |-> 404, stop |-> 405],
       [start |-> 405, stop |-> 425], [start |-> 425, stop |-> 464],
       [start |-> 464, stop |-> 720] >>

\* faulty variant: the Name range starts one byte early
FieldSpecEarlyName ==
    << [start |-> 313, stop |-> 364], [start |-> 364, stop |-> 394],
       [start |-> 394, stop |-> 404], [start |-> 404, stop |-> 405],
       [start |-> 405, stop |-> 425], [start |-> 425, stop |-> 464],
       [start |-> 464, stop |-> 720] >>

\* faulty variant: the Comment range stops at 719, as in the older scripts
FieldSpecComment719 ==
    << [start |-> 314, stop |-> 364], [start |-> 364, stop |-> 394],
       [start |-> 394, stop |-> 404], [start |-> 404, stop |-> 405],
       [start |-> 405, stop |-> 425], [start |-> 425, stop |-> 464],
       [start |-> 464, stop |-> 719] >>

\* the ranges anonymise_eeg of utils.py passes to change_field:
\* Name, Surname, Birthdate, Sex, Folder, Centre, Comment
FieldSpec ==
    << [start |-> 314, stop |-> 364], [start |-> 364, stop |-> 394],
       [start |-> 394, stop |-> 404], [start |-> 404, stop |-> 405],
       [start |-> 405, stop |-> 425], [start |-> 425, stop |-> 464],
       [start |-> 464, stop |-> 720] >>

\* the ranges of anonymise_eeg of anonymiser.py (Comment stops at 719)
FieldSpecOld ==
    << [start |-> 314, stop |-> 364], [start |-> 364, stop |-> 394],
       [start |-> 394, stop |-> 404], [start |-> 404, stop |-> 405],
       [start |-> 405, stop |-> 425], [start |-> 425, stop |-> 464],
       [start |-> 464, stop |-> 719] >>

Variants == {"utils", "anonymiser"}

field_spec(variant) == IF variant = "utils" THEN FieldSpec ELSE FieldSpecOld

\* ------------------------------------------------------------------------
\* extract_header
\* ------------------------------------------------------------------------
\* utils.py: file_.read(720), one element per byte
extract_header(file) == SubSeq(file, 1, Min(HEADER_SIZE, Len(file)))

\* index of the last byte of the line that starts at index i (the newline
\* that ends it, or the last byte of the file)
line_end(file, i) ==
    LET nl == {j \in i..Len(file) : file[j] = NEWLINE}
    IN  IF nl = {} THEN Len(file) ELSE CHOOSE j \in nl : \A k \in nl : j <= k

\* anonymiser.py and dataset_maker.py: whole lines are appended until the
\* header holds more than 719 bytes; a file that ends before that falls out
\* of the loop and the function returns None
RECURSIVE extract_header_lines(_, _)
extract_header_lines(file, read) ==
    IF read >= Len(file)
    THEN None
    ELSE LET end == line_end(file, read + 1)
         IN  IF end > OLD_HEADER_LIMIT
             THEN SubSeq(file, 1, end)
             ELSE extract_header_lines(file, end)

read_header(variant, file) ==
    IF variant = "utils" THEN extract_header(file)
    ELSE extract_header_lines(file, 0)

\* ------------------------------------------------------------------------
\* Arguments of anonymise_eeg
\* ------------------------------------------------------------------------
\* an argument the caller does not pass
Unsupplied == <<-2>>

\* faulty variant: None is blanked like ''
bind_default_blank(arg) == IF arg = Unsupplied \/ arg = None THEN <<>> ELSE arg

\* faulty variant: the field arguments default to None
bind_default_none(arg) == IF arg = Unsupplied THEN None ELSE arg

\* the defaults of the signature: every field argument defaults to ''
bind_default(arg) == IF arg = Unsupplied THEN <<>> ELSE arg

\* faulty variant: encode('ascii', errors='replace')
encode_ascii_replace(str) ==
    [ok |-> TRUE,
     bytes |-> [i \in 1..Len(str) |-> IF str[i] <= 127 THEN str[i] ELSE 63]]

\* str.encode('ascii'): strict, fails on a code point above 127
encode_ascii(str) ==
    [ok |-> \A i \in 1..Len(str) : str[i] <= 127,
     bytes |-> [i \in 1..Len(str) |-> str[i] % 256]]

\* The seven "if field is not None: change_field(...)" statements, from the
\* k-th on.  err names the exception that ends the call, "" when none does.
RECURSIVE apply_fields(_, _, _, _)
apply_fields(data, fields, spec, k) ==
    IF k > Len(spec) THEN [content |-> data, err |-> ""]
    ELSE IF fields[k] = None THEN apply_fields(data, fields, spec, k + 1)
    ELSE LET enc == encode_ascii(fields[k])
         IN  IF ~enc.ok THEN [content |-> data, err |-> "UnicodeEncodeError"]
             ELSE IF data = None THEN [content |-> data, err |-> "TypeError"]
             ELSE LET r == change_field(data, spec[k].start, spec[k].stop,
                                        enc.bytes, FILLER)
                  IN  IF r.raised
                      THEN [content |-> r.array, err |-> "IndexError"]
                      ELSE apply_fields(r.array, fields, spec, k + 1)

\* the header buffer anonymise_eeg builds before it touches the filesystem
anonymised_header(variant, file, args) ==
    apply_fields(read_header(variant, file),
                 [k \in 1..Len(args) |-> bind_default(args[k])],
                 field_spec(variant), 1)

\* ------------------------------------------------------------------------
\* Filesystem
\* ------------------------------------------------------------------------
\* a path that names no file
Absent == <<-1>>

SRC == "in/a.eeg"
OUT == "out/a.eeg"
PART == "out/a.eeg.part"
SRC_PART == "in/a.eeg.part"
Paths == {SRC, OUT, PART, SRC_PART}

\* faulty variant: the copy is made straight onto the destination
part_path_direct(destination) == destination

\* destination_file + '.part', the path shutil.copyfile writes to
part_path(destination) == IF destination = OUT THEN PART ELSE SRC_PART

\* os.path.dirname
dirname(path) == IF path = SRC THEN "in" ELSE "out"

\* ensure_path: os.makedirs unless the directory exists
ensure_path(ds, path) == IF path \in ds THEN ds ELSE ds \cup {path}

\* faulty variant: the destination is opened for appending
write_at_append(file, at, data) == file \o data

\* faulty variant: the destination is truncated behind the bytes written
write_at_trunc(file, at, data) == SubSeq(file, 1, at) \o data

\* file_.write(data) at offset `at` of a file opened 'rb+'
write_at(file, at, data) ==
    [i \in 1..(IF Len(file) > at + Len(data) THEN Len(file) ELSE at + Len(data)) |->
        IF i > at /\ i <= at + Len(data) THEN data[i - at] ELSE file[i]]

\* ------------------------------------------------------------------------
\* The recordings and calls the model starts from
\* ------------------------------------------------------------------------
SrcByte(i) == IF i \in {100, 330, 722} THEN NEWLINE ELSE 11 + ((i * 37) % 200)

\* a recording with a body, one that is a bare header, one whose identity
\* fields are already blank, one that is truncated
RecFile == [i \in 1..(HEADER_SIZE + BodyLen) |-> SrcByte(i - 1)]
HdrFile == [i \in 1..HEADER_SIZE |-> SrcByte(i - 1)]
AnonFile == [i \in 1..(HEADER_SIZE + BodyLen) |->
                IF i > 314 /\ i <= 720 THEN 0 ELSE SrcByte(i - 1)]
ShortFile == [i \in 1..ShortLen |-> SrcByte(i - 1)]
\* a file that already sits at the destination
OldFile == [i \in 1..(HEADER_SIZE + BodyLen + 2) |-> 211 + (i % 40)]

SrcKinds == {"rec", "hdr", "anon", "short"}
DstKinds == {"inplace", "new", "old"}

SrcFile(kind) ==
    CASE kind = "rec" -> RecFile
      [] kind = "hdr" -> HdrFile
      [] kind = "anon" -> AnonFile
      [] OTHER -> ShortFile

\* ------------------------------------------------------------------------
\* Paths of code points, and the names main of anonymiser.py passes
\* ------------------------------------------------------------------------
SEP == 47
UNDERSCORE == 95

\* the index of the last separator of a path, 0 when it has none
last_sep(path) ==
    LET seps == {i \in 1..Len(path) : path[i] = SEP}
    IN  IF seps = {} THEN 0 ELSE CHOOSE i \in seps : \A j \in seps : j <= i

\* os.path.basename
basename(path) == SubSeq(path, last_sep(path) + 1, Len(path))

\* os.path.dirname of a path of code points
os_dirname(path) == SubSeq(path, 1, last_sep(path) - 1)

\* the lambda folder_name of main
folder_name(path) == basename(os_dirname(path))

\* field_name of main
field_name(use_folder_as_name, path) ==
    IF use_folder_as_name THEN folder_name(path) ELSE <<>>

\* "in", "out"
ROOT == <<105, 110>>
DESTROOT == <<111, 117, 116>>

\* "in/B.EEG", "in/a/c.eeg", "in/b.eeg", "in/d.txt"
BatchFiles ==
    { <<105, 110, 47, 66, 46, 69, 69, 71>>,
      <<105, 110, 47, 97, 47, 99, 46, 101, 101, 103>>,
      <<105, 110, 47, 98, 46, 101, 101, 103>>,
      <<105, 110, 47, 100, 46, 116, 120, 116>> }

\* a recording below a folder whose name is longer than the Name field:
\* "in/" + 51 letters + "/c.eeg"
LongFolderFile ==
    ROOT \o <<SEP>> \o [i \in 1..51 |-> 97 + (i % 26)] \o <<SEP, 99, 46, 101, 101, 103>>

\* faulty variant: the name of the file instead of the name of its folder
main_args_file(use_folder_as_name, path) ==
    [k \in 1..7 |-> IF k = 1 THEN (IF use_folder_as_name THEN basename(path) ELSE <<>>)
                    ELSE Unsupplied]

\* the arguments of the call of anonymise_eeg in main: field_name, and the
\* other fields not supplied
main_args(use_folder_as_name, path) ==
    [k \in 1..7 |-> IF k = 1 THEN field_name(use_folder_as_name, path) ELSE Unsupplied]

ANON == <<65, 78, 79, 78>>
LongStr(n) == [i \in 1..n |-> 65 + (i % 26)]

ArgSets ==
    { [k \in 1..7 |-> Unsupplied],
      [k \in 1..7 |-> None],
      [k \in 1..7 |-> IF k = 1 THEN ANON ELSE None],
      [k \in 1..7 |-> IF k = 1 THEN ANON ELSE Unsupplied],
      [k \in 1..7 |-> IF k = 1 THEN LongStr(51) ELSE None],
      [k \in 1..7 |-> CASE k = 1 -> LongStr(51) [] k = 4 -> ANON
                        [] k = 7 -> LongStr(257) [] OTHER -> None],
      [k \in 1..7 |-> IF k = 5 THEN <<233>> ELSE None] }
    \cup { [k \in 1..7 |-> IF k = bad THEN <<74, 233>> ELSE Unsupplied] : bad \in 1..7 }
    \cup { main_args(flag, path) :
             flag \in BOOLEAN, path \in BatchFiles \cup {LongFolderFile} }

dst_path(kind) == IF kind = "inplace" THEN SRC ELSE OUT

InitFS(c) ==
    [p \in Paths |->
        CASE p = SRC -> SrcFile(c.src)
          [] p = OUT -> IF c.dst = "old" THEN OldFile ELSE Absent
          [] OTHER -> Absent]

InitDirs(c) == IF c.dst = "new" THEN {"in"} ELSE {"in", "out"}

\* ------------------------------------------------------------------------
\* State
\* ------------------------------------------------------------------------
VARIABLES
    cf,        \* the change_field call of SpecField
    cfg,       \* the call: variant of the code, source, destination, arguments
    fs,        \* path -> bytes of the file, or Absent
    dirs,      \* the directories that exist
    pc,        \* position of the anonymise_eeg call
    content,   \* the header buffer of the call
    pos,       \* bytes of content written to the destination so far
    err,       \* the exception that ended the last call, "" when none
    run,       \* calls started so far
    from,      \* how the previous call ended, "idle" before the first
    prev,      \* the destination when the current call started
    ints,      \* interruptions so far
    ff,        \* the find_files call of SpecFind
    batch,     \* the run of anonymiser.main of SpecBatch
    yn,        \* the confirmation gate of SpecYesNo
    ep,        \* the calls of ensure_path of SpecEnsure
    dm,        \* the run of dataset_maker.main of SpecDataset
    cv,        \* the call of utils.convert_coh3_to_edf of SpecConvert
    co         \* the run of coh3toEDF.main of SpecCoh

vars == <<cf, cfg, fs, dirs, pc, content, pos, err, run, from, prev, ints,
          ff, batch, yn, ep, dm, cv, co>>

\* the state of the directory calls and of the two other scripts
xvars == <<ep, dm, cv, co>>

XResting ==
    /\ ep = [pc |-> "idle"]
    /\ dm = [pc |-> "idle"]
    /\ cv = [pc |-> "idle"]
    /\ co = [pc |-> "idle"]

\* the parts of the state an anonymise_eeg step leaves alone
hvars == <<ff, batch, yn, xvars>>

\* the state at rest of the parts a specification does not use
Resting ==
    /\ ff = [pc |-> "idle"] /\ batch = [pc |-> "idle"] /\ yn = [pc |-> "idle"]
    /\ XResting

avars == <<cfg, fs, dirs, pc, content, pos, err, run, from, prev, ints>>

srcfile == fs[SRC]
dst == dst_path(cfg.dst)
dstfile == fs[dst]
part == part_path(dst)

\* ------------------------------------------------------------------------
\* anonymise_eeg
\* ------------------------------------------------------------------------
Init ==
    /\ cf = [pc |-> "idle"]
    /\ cfg \in [variant : Variants, src : SrcKinds, dst : DstKinds, args : ArgSets]
    /\ fs = InitFS(cfg)
    /\ dirs = InitDirs(cfg)
    /\ pc = "idle"
    /\ content = <<>>
    /\ pos = 0
    /\ err = ""
    /\ run = 0
    /\ from = "idle"
    /\ prev = Absent
    /\ ints = 0
    /\ Resting

CanCall == pc \in {"idle", "done", "raised", "interrupted"} /\ run < MaxRuns

\* the call reads the header, patches the fields, ensures the directory and
\* tests os.path.isfile(destination_file)
Call ==
    /\ CanCall
    /\ LET h == anonymised_header(cfg.variant, srcfile, cfg.args)
       IN  /\ h.err = "" /\ h.content # None
           /\ content' = h.content
           /\ dirs' = ensure_path(dirs, dirname(dst))
           /\ pc' = IF dstfile = Absent THEN "copy" ELSE "write"
    /\ pos' = 0
    /\ err' = ""
    /\ run' = run + 1
    /\ from' = pc
    /\ prev' = dstfile
    /\ UNCHANGED <<hvars, cf, cfg, fs, ints>>

\* the call raises before the destination is touched: a field does not
\* encode, or the header is too short for a field (IndexError; with the
\* older reader the header is None: TypeError, for all-None arguments only
\* when the generator over content is built, after ensure_path)
CallRaises ==
    /\ CanCall
    /\ LET h == anonymised_header(cfg.variant, srcfile, cfg.args)
       IN  /\ h.err # "" \/ h.content = None
           /\ err' = IF h.err # "" THEN h.err ELSE "TypeError"
           /\ dirs' = IF h.err # "" THEN dirs ELSE ensure_path(dirs, dirname(dst))
    /\ pc' = "raised"
    /\ run' = run + 1
    /\ from' = pc
    /\ prev' = dstfile
    /\ UNCHANGED <<hvars, cf, cfg, fs, content, pos, ints>>

\* shutil.copyfile opens destination_file + '.part' for writing
CopyOpen ==
    /\ pc = "copy"
    /\ fs' = [fs EXCEPT ![part] = <<>>]
    /\ pc' = "copying"
    /\ UNCHANGED <<hvars, cf, cfg, dirs, content, pos, err, run, from, prev, ints>>

\* shutil.copyfile copies the next bytes of the source
CopyChunk ==
    /\ pc = "copying"
    /\ Len(fs[part]) < Len(srcfile)
    /\ fs' = [fs EXCEPT ![part] =
                @ \o SubSeq(srcfile, Len(@) + 1, Min(Len(@) + CopyStride, Len(srcfile)))]
    /\ UNCHANGED <<hvars, cf, cfg, dirs, pc, content, pos, err, run, from, prev, ints>>

\* the copy is complete: os.rename(destination_file + '.part', destination_file)
Rename ==
    /\ pc = "copying"
    /\ Len(fs[part]) = Len(srcfile)
    /\ fs' = [fs EXCEPT ![part] = Absent, ![dst] = fs[part]]
    /\ pc' = "write"
    /\ UNCHANGED <<hvars, cf, cfg, dirs, content, pos, err, run, from, prev, ints>>

\* the loop "for char in content: file_.write(char)", WriteStride bytes on
WriteChunk ==
    /\ pc = "write"
    /\ pos < Len(content)
    /\ LET n == Min(pos + WriteStride, Len(content))
       IN  /\ fs' = [fs EXCEPT ![dst] = write_at(@, pos, SubSeq(content, pos + 1, n))]
           /\ pos' = n
    /\ UNCHANGED <<hvars, cf, cfg, dirs, pc, content, err, run, from, prev, ints>>

\* the file is closed and anonymise_eeg returns True
Return ==
    /\ pc = "write"
    /\ pos = Len(content)
    /\ pc' = "done"
    /\ UNCHANGED <<hvars, cf, cfg, fs, dirs, content, pos, err, run, from, prev, ints>>

\* the call is interrupted (KeyboardInterrupt, MemoryError, the process is
\* killed) and leaves the filesystem as it is
Interrupt ==
    /\ pc \in {"copy", "copying", "write"}
    /\ ints < MaxInterrupts
    /\ pc' = "interrupted"
    /\ ints' = ints + 1
    /\ UNCHANGED <<hvars, cf, cfg, fs, dirs, content, pos, err, run, from, prev>>

Next ==
    \/ Call
    \/ CallRaises
    \/ CopyOpen
    \/ CopyChunk
    \/ Rename
    \/ WriteChunk
    \/ Return
    \/ Interrupt

Spec == Init /\ [][Next]_vars

\* ------------------------------------------------------------------------
\* Specification of change_field alone: one call on bounded inputs
\* ------------------------------------------------------------------------
Bytes == 0..MaxByte

SeqsUpTo(S, n) == UNION {[1..k -> S] : k \in 0..n}

CFInit ==
    \E array \in SeqsUpTo(Bytes, MaxBuf), start \in 0..MaxBuf,
       stop \in 0..(MaxBuf + 1), data \in SeqsUpTo(Bytes, MaxContent),
       filler \in {FILLER, MaxByte} :
        cf = [pc |-> "call", array |-> array, before |-> array,
              start |-> start, stop |-> stop, content |-> data,
              filler |-> filler, used |-> 0, ret |-> FALSE]

\* change_field returns
CFReturn ==
    /\ cf.pc = "call"
    /\ LET r == change_field(cf.array, cf.start, cf.stop, cf.content, cf.filler)
       IN  /\ ~r.raised
           /\ cf' = [cf EXCEPT !.pc = "returned", !.array = r.array,
                               !.used = r.used, !.ret = r.ret]
    /\ UNCHANGED <<avars, hvars>>

\* change_field raises IndexError, leaving the bytes it had already written
CFRaise ==
    /\ cf.pc = "call"
    /\ LET r == change_field(cf.array, cf.start, cf.stop, cf.content, cf.filler)
       IN  /\ r.raised
           /\ cf' = [cf EXCEPT !.pc = "raised", !.array = r.array,
                               !.used = r.used]
    /\ UNCHANGED <<avars, hvars>>

\* the anonymise_eeg part of the state stays at rest
FieldInit ==
    /\ CFInit
    /\ cfg = [variant |-> "utils", src |-> "hdr", dst |-> "new",
              args |-> [k \in 1..7 |-> None]]
    /\ fs = [p \in Paths |-> Absent]
    /\ dirs = {}
    /\ pc = "idle"
    /\ content = <<>>
    /\ pos = 0
    /\ err = ""
    /\ run = 0
    /\ from = "idle"
    /\ prev = Absent
    /\ ints = 0
    /\ Resting

FieldNext == CFReturn \/ CFRaise

SpecField == FieldInit /\ [][FieldNext]_vars

\* ------------------------------------------------------------------------
\* Properties of change_field (checked under SpecField)
\* ------------------------------------------------------------------------
CFWidth == cf.stop - cf.start

\* C1: when change_field returns, every index i with start <= i < stop holds
\* content[i - start] if i - start < len(content) and the filler otherwise:
\* longer content is cut to its first stop - start bytes, shorter content is
\* padded to the end of the field.
C1_FieldContents ==
    cf.pc = "returned" =>
        \A i \in cf.start..(cf.stop - 1) :
            cf.array[i + 1] = IF i - cf.start < Len(cf.content)
                              THEN cf.content[i - cf.start + 1]
                              ELSE cf.filler

\* a call that wrote content and padding, and changed the buffer
C1_Witness ==
    /\ cf.pc = "returned"
    /\ Len(cf.content) > 0
    /\ Len(cf.content) < CFWidth
    /\ cf.array # cf.before

\* C2: change_field returns True exactly when stop - start >= len(content)
\* and False exactly when content is longer than the field, which (for
\* start <= stop) is exactly when bytes of content were not written; the
\* value is a function of start, stop and content alone.
C2_ReturnValue ==
    cf.pc = "returned" =>
        /\ cf.ret = (CFWidth >= Len(cf.content))
        /\ cf.ret = ~(Len(cf.content) > CFWidth)
        /\ cf.start <= cf.stop => (cf.ret <=> cf.used = Len(cf.content))

\* a call that dropped the tail of its content and returned False
C2_Witness ==
    /\ cf.pc = "returned"
    /\ ~cf.ret
    /\ cf.used > 0
    /\ cf.used < Len(cf.content)

\* ------------------------------------------------------------------------
\* Properties of anonymise_eeg (checked under Spec)
\* ------------------------------------------------------------------------
\* the source as the current call found it
SourceAtEntry == IF cfg.dst = "inplace" THEN prev ELSE srcfile

\* the call found no file at the destination
CreatedByCall == run >= 1 /\ prev = Absent

NameOnly(rest) ==
    /\ cfg.args[1] # None
    /\ \A k \in 2..7 : cfg.args[k] = rest

\* bytes [lo, hi) of file f are those of file g
SameBytes(f, g, lo, hi) == \A i \in (lo + 1)..hi : f[i] = g[i]

\* bytes [lo, hi) of file f are data followed by 0x00
IsField(f, lo, hi, data) ==
    \A i \in (lo + 1)..hi :
        f[i] = IF i - lo <= Len(data) THEN data[i - lo] ELSE 0

\* C3: field isolation.  For a source of at least 720 bytes and no file at
\* the destination, a call of anonymise_eeg (utils.py) that replaces the Name
\* field and passes None for the six others leaves a destination of the
\* source's length whose bytes outside [314,364) are the source's.
C3_FieldIsolation ==
    ( /\ cfg.variant = "utils"
      /\ pc = "done"
      /\ CreatedByCall
      /\ Len(srcfile) >= HEADER_SIZE
      /\ NameOnly(None) )
    => /\ Len(dstfile) = Len(srcfile)
       /\ SameBytes(dstfile, srcfile, 0, 314)
       /\ SameBytes(dstfile, srcfile, 364, Len(srcfile))

\* such a call returned and the Name field is ANON, padded
C3_Witness ==
    /\ cfg.variant = "utils"
    /\ pc = "done"
    /\ CreatedByCall
    /\ cfg.src = "rec"
    /\ NameOnly(None)
    /\ cfg.args[1] = ANON
    /\ IsField(dstfile, 314, 364, ANON)
    /\ dstfile # srcfile

AllArgs(v) == \A k \in 1..7 : cfg.args[k] = v

\* C4: non-destructive passthrough.  With no file at the destination and all
\* seven fields None, anonymise_eeg (utils.py) leaves a destination that is
\* byte-identical to the source, whatever the length of the source.
C4_Passthrough ==
    ( /\ cfg.variant = "utils"
      /\ pc = "done"
      /\ CreatedByCall
      /\ AllArgs(None) )
    => dstfile = srcfile

\* the passthrough call returned for a recording with a body
C4_Witness ==
    /\ cfg.variant = "utils"
    /\ pc = "done"
    /\ CreatedByCall
    /\ AllArgs(None)
    /\ cfg.src = "rec"
    /\ dstfile = RecFile
    /\ fs[part] = Absent

\* C5: idempotence.  A call of anonymise_eeg that directly follows a call
\* with the same arguments that ran to its end leaves the destination
\* byte-identical to what that call left, for a separate destination and in
\* place (both calls return, or both raise and change nothing).
C5_Idempotent ==
    ( /\ pc \in {"done", "raised"}
      /\ from \in {"done", "raised"} )
    => /\ dstfile = prev
       /\ pc = from

\* a second call in place returned, on a header the first call had changed
C5_Witness ==
    /\ pc = "done"
    /\ from = "done"
    /\ run = 2
    /\ cfg.dst = "inplace"
    /\ cfg.src = "rec"
    /\ dstfile # RecFile

NameOK ==
    ( /\ cfg.variant = "utils"
      /\ pc = "done"
      /\ Len(SourceAtEntry) >= HEADER_SIZE
      /\ cfg.args[1] = ANON )
    => IsField(dstfile, 314, 364, ANON)

\* C6 as stated: with only the name supplied ("ANON") and the six other
\* fields not supplied, bytes [314,364) are ANON then 0x00 and bytes
\* [364,720) are unchanged from the source.
C6_Original ==
    /\ NameOK
    /\ ( /\ cfg.variant = "utils"
         /\ pc = "done"
         /\ Len(SourceAtEntry) >= HEADER_SIZE
         /\ NameOnly(Unsupplied)
         /\ cfg.args[1] = ANON )
       => SameBytes(dstfile, SourceAtEntry, 364, HEADER_SIZE)

\* C6 amended: for a source of at least 720 bytes, bytes [314,364) are ANON
\* then 0x00; fields that are not supplied take the default '' and their
\* bytes [364,720) are set to 0x00; bytes [364,720) are unchanged from the
\* source when the six other fields are passed as None.
C6_NameOnly ==
    /\ NameOK
    /\ ( /\ cfg.variant = "utils"
         /\ pc = "done"
         /\ Len(SourceAtEntry) >= HEADER_SIZE
         /\ cfg.args[1] = ANON )
       => /\ NameOnly(Unsupplied) => IsField(dstfile, 364, HEADER_SIZE, <<>>)
          /\ NameOnly(None) => SameBytes(dstfile, SourceAtEntry, 364, HEADER_SIZE)

\* the call with only the name supplied returned and blanked a Surname byte
\* that was not zero in the source
C6_Witness ==
    /\ cfg.variant = "utils"
    /\ pc = "done"
    /\ NameOnly(Unsupplied)
    /\ cfg.args[1] = ANON
    /\ Len(SourceAtEntry) >= HEADER_SIZE
    /\ SourceAtEntry[365] # 0
    /\ dstfile[365] = 0

\* the source with bytes [314,720) set to 0x00
Blanked(f) == [i \in 1..Len(f) |-> IF i > 314 /\ i <= HEADER_SIZE THEN 0 ELSE f[i]]

\* C7: anonymise_eeg (utils.py) called with the two paths only, for a source
\* of at least 720 bytes and a destination that the call creates or that is
\* the source itself, leaves the source with bytes [314,720) set to 0x00 and
\* all other bytes unchanged; its header is the one change_field(header, 314,
\* 720, []) gives; it differs from the source whenever the source has a
\* non-zero byte in [314,720).
C7_Defaults ==
    ( /\ cfg.variant = "utils"
      /\ pc = "done"
      /\ AllArgs(Unsupplied)
      /\ Len(SourceAtEntry) >= HEADER_SIZE
      /\ (CreatedByCall \/ cfg.dst = "inplace") )
    => /\ dstfile = Blanked(SourceAtEntry)
       /\ extract_header(dstfile) =
            change_field(extract_header(SourceAtEntry), 314, HEADER_SIZE,
                         <<>>, FILLER).array
       /\ (\E i \in 315..HEADER_SIZE : SourceAtEntry[i] # 0)
            => dstfile # SourceAtEntry

\* the call with default fields returned and changed the recording
C7_Witness ==
    /\ cfg.variant = "utils"
    /\ pc = "done"
    /\ AllArgs(Unsupplied)
    /\ CreatedByCall
    /\ cfg.src = "rec"
    /\ dstfile # srcfile
    /\ dstfile[720] = 0

\* states of the creation step of a call that found no destination: the
\* copy, the rename, and an interruption before the first header byte
InCreation ==
    /\ CreatedByCall
    /\ pos = 0
    /\ pc \in {"copy", "copying", "write", "interrupted"}

\* C8: atomic creation (both anonymise_eeg).  In every state of the creation
\* step the destination is absent or a complete copy of the source; a
\* partial copy is only ever under destination + '.part'; the destination
\* appears by one rename of the complete '.part' file.
C8_AtomicCreation ==
    /\ [](InCreation => (dstfile = Absent \/ dstfile = srcfile))
    /\ [][(dstfile = Absent /\ dstfile' # Absent)
            => /\ fs[part] = srcfile
               /\ dstfile' = srcfile
               /\ fs'[part] = Absent]_vars

\* an interrupted copy: part of the source under '.part', no destination
C8_Witness ==
    /\ pc = "interrupted"
    /\ CreatedByCall
    /\ dstfile = Absent
    /\ fs[part] # Absent
    /\ Len(fs[part]) > 0
    /\ Len(fs[part]) < Len(srcfile)

\* the destination as it is when the header patch of the current call starts
PatchBase == IF prev = Absent THEN SourceAtEntry ELSE prev

\* the result of the complete header patch
Patched ==
    [i \in 1..(IF Len(PatchBase) > Len(content) THEN Len(PatchBase) ELSE Len(content)) |->
        IF i <= Len(content) THEN content[i] ELSE PatchBase[i]]

InCall == run >= 1 /\ pc \in {"copy", "copying", "write", "done", "interrupted"}

\* C9 as stated: in every state of a call, also the state an interruption
\* leaves, the destination is absent, a complete copy of the source (or the
\* file that was there), or the complete anonymised output.
C9_Original ==
    InCall => \/ dstfile = Absent
              \/ dstfile = PatchBase
              \/ dstfile = Patched

\* C9 amended: the destination is never partially copied, but the header
\* patch is not atomic: in every state of a call, also the state an
\* interruption leaves, the destination is absent or is the complete copy
\* (or the file that was there) with its first pos bytes overwritten by the
\* anonymised header, for some pos from 0 to the header length.
C9_PatchedPrefix ==
    InCall =>
        \/ dstfile = Absent
        \/ /\ pos <= Len(content)
           /\ Len(dstfile) = (IF Len(PatchBase) > pos THEN Len(PatchBase) ELSE pos)
           /\ \A i \in 1..Len(dstfile) :
                dstfile[i] = IF i <= pos THEN content[i] ELSE PatchBase[i]

\* an interruption left a header that is neither the old nor the new one
C9_Witness ==
    /\ pc = "interrupted"
    /\ pos > 0
    /\ pos < Len(content)
    /\ dstfile # PatchBase
    /\ dstfile # Patched

\* C10 as stated: the header patch writes exactly the 720 bytes [0,720).  For
\* a source of at least 720 bytes: a destination created by the call has the
\* source's length and the source's bytes from offset 720 on; a destination
\* that existed is not copied again and keeps its length and its bytes from
\* offset 720 on.
C10_Original ==
    ( /\ pc = "done"
      /\ run = 1
      /\ ints = 0
      /\ Len(SourceAtEntry) >= HEADER_SIZE )
    => /\ prev = Absent =>
            /\ Len(dstfile) = Len(srcfile)
            /\ SameBytes(dstfile, srcfile, HEADER_SIZE, Len(srcfile))
       /\ prev # Absent =>
            /\ fs[part] = Absent
            /\ Len(dstfile) = Len(prev)
            /\ SameBytes(dstfile, prev, HEADER_SIZE, Len(prev))

\* ------------------------------------------------------------------------
\* Truncated sources, header readers and field ranges (checked under Spec)
\* ------------------------------------------------------------------------
\* C11: a source shorter than 720 bytes makes the header read fail, so that
\* a call of anonymise_eeg on it raises without processing the file: no
\* destination file is created or modified.
C11_Original ==
    (run >= 1 /\ cfg.src = "short") =>
        /\ pc = "raised"
        /\ fs = InitFS(cfg)

\* C12: for a source of at least 720 bytes every header reader returns
\* exactly 720 elements, the bytes 0..719 of the file in order, wherever the
\* newline bytes are.
C12_Original ==
    (run >= 1 /\ pc # "raised" /\ Len(SourceAtEntry) >= HEADER_SIZE) =>
        /\ Len(content) = HEADER_SIZE
        /\ AllArgs(None) => content = SubSeq(SourceAtEntry, 1, HEADER_SIZE)

\* each range is not empty and starts where the previous one stops
Chained(spec) ==
    /\ \A k \in 1..7 : spec[k].start < spec[k].stop
    /\ \A k \in 1..6 : spec[k].stop = spec[k + 1].start

PairwiseDisjoint(spec) ==
    \A j \in 1..7 : \A k \in 1..7 :
        j < k => spec[j].stop <= spec[k].start

\* where the ranges of a script stop
LayoutEnd(variant) == IF variant = "utils" THEN HEADER_SIZE ELSE HEADER_SIZE - 1

\* the call read a header and changed its fields
HeaderChanged == run >= 1 /\ pc # "raised"

\* C13 as stated: the seven ranges are pairwise disjoint, chained, and cover
\* exactly [314,720), so that no byte of the header below offset 314 is
\* changed.
C13_Original ==
    HeaderChanged =>
        /\ PairwiseDisjoint(field_spec(cfg.variant))
        /\ Chained(field_spec(cfg.variant))
        /\ field_spec(cfg.variant)[1].start = 314
        /\ field_spec(cfg.variant)[7].stop = HEADER_SIZE
        /\ SameBytes(content, SourceAtEntry, 0, 314)

\* C13: the seven ranges are pairwise disjoint and chained from 314 to 720
\* in utils.py and from 314 to 719 in anonymiser.py; no byte of the header
\* below offset 314 is changed, and in anonymiser.py byte 719 is not changed
\* either, while utils.py blanks it with the default Comment.
C13_Ranges ==
    HeaderChanged =>
        /\ PairwiseDisjoint(field_spec(cfg.variant))
        /\ Chained(field_spec(cfg.variant))
        /\ field_spec(cfg.variant)[1].start = 314
        /\ field_spec(cfg.variant)[7].stop = LayoutEnd(cfg.variant)
        /\ SameBytes(content, SourceAtEntry, 0, 314)
        /\ Len(SourceAtEntry) >= HEADER_SIZE =>
              /\ cfg.variant = "anonymiser" =>
                    SameBytes(content, SourceAtEntry, HEADER_SIZE - 1, HEADER_SIZE)
              /\ (cfg.variant = "utils" /\ cfg.args[7] = Unsupplied) =>
                    content[HEADER_SIZE] = 0

\* anonymiser.py blanked every field of a recording and left byte 719
C13_Witness ==
    /\ pc = "done"
    /\ cfg.variant = "anonymiser"
    /\ cfg.src = "rec"
    /\ AllArgs(Unsupplied)
    /\ content[314] = srcfile[314]
    /\ srcfile[315] # 0
    /\ content[315] = 0
    /\ content[HEADER_SIZE - 1] = 0
    /\ content[HEADER_SIZE] # 0

\* a field value holds a code point that ASCII does not have
NonAscii(str) == \E i \in 1..Len(str) : str[i] > 127

\* C20: when one of the seven field values holds a non-ASCII character, the
\* call of anonymise_eeg (utils.py) raises an encoding error before any
\* change of the filesystem: no directory and no file is created or
\* modified, whichever field holds the value.
C20_EncodingError ==
    ( /\ cfg.variant = "utils"
      /\ run >= 1
      /\ \E k \in 1..7 : NonAscii(cfg.args[k]) )
    => /\ pc = "raised"
       /\ err = "UnicodeEncodeError"
       /\ fs = InitFS(cfg)
       /\ dirs = InitDirs(cfg)

\* the call raised on a non-ASCII Comment, the last field, and the folder of
\* the destination was not made
C20_Witness ==
    /\ cfg.variant = "utils"
    /\ pc = "raised"
    /\ err = "UnicodeEncodeError"
    /\ NonAscii(cfg.args[7])
    /\ cfg.args[1] = Unsupplied
    /\ cfg.dst = "new"
    /\ dirname(dst) \notin dirs
    /\ dstfile = Absent

\* ------------------------------------------------------------------------
\* Paths and names: strings are sequences of code points
\* ------------------------------------------------------------------------
\* str.startswith
startswith(str, prefix) ==
    /\ Len(prefix) <= Len(str)
    /\ SubSeq(str, 1, Len(prefix)) = prefix

\* str.endswith
endswith(str, suffix) ==
    /\ Len(suffix) <= Len(str)
    /\ SubSeq(str, Len(str) - Len(suffix) + 1, Len(str)) = suffix

\* ------------------------------------------------------------------------
\* Specification of find_files alone: one call on bounded inputs
\* ------------------------------------------------------------------------
MaxFiles == 2

\* the test of the list comprehension
is_matching(prefix, path) ==
    startswith(basename(path), prefix \o <<UNDERSCORE>>)

\* matching_files of one source, in the order of the source
RECURSIVE matching_files(_, _, _)
matching_files(prefix, files, i) ==
    IF i > Len(files) THEN <<>>
    ELSE (IF is_matching(prefix, files[i]) THEN <<files[i]>> ELSE <<>>)
         \o matching_files(prefix, files, i + 1)

\* faulty variant: the matches of all sources, one after the other
RECURSIVE find_files_all(_, _, _)
find_files_all(prefix, sources, k) ==
    IF k > Len(sources) THEN <<>>
    ELSE matching_files(prefix, sources[k].files, 1)
         \o find_files_all(prefix, sources, k + 1)

\* the loop over sources.values(), from the k-th source on
RECURSIVE find_files_from(_, _, _)
find_files_from(prefix, sources, k) ==
    IF k > Len(sources) THEN <<>>
    ELSE LET found == matching_files(prefix, sources[k].files, 1)
         IN  IF found # <<>> THEN found
             ELSE find_files_from(prefix, sources, k + 1)

find_files(prefix, sources) == find_files_from(prefix, sources, 1)

\* "d/f_0", "d/f_1", "f_/x", "d/f0", "g_1"
FindPaths ==
    { <<100, 47, 102, 95, 48>>, <<100, 47, 102, 95, 49>>,
      <<102, 95, 47, 120>>, <<100, 47, 102, 48>>, <<103, 95, 49>> }

\* "f", "g"
FindPrefixes == { <<102>>, <<103>> }

SourceKeys == {"folder_0", "folder_1"}

\* the mappings: sources with distinct keys, in any order of insertion
SourceMaps ==
    { m \in UNION { [1..n -> [key : SourceKeys,
                              files : SeqsUpTo(FindPaths, MaxFiles)]] :
                    n \in 0..Cardinality(SourceKeys) } :
        \A i \in 1..Len(m) : \A j \in 1..Len(m) :
            m[i].key = m[j].key => i = j }

\* the anonymise_eeg and change_field parts of the state at rest
OthersResting ==
    /\ cf = [pc |-> "idle"]
    /\ cfg = [variant |-> "utils", src |-> "hdr", dst |-> "new",
              args |-> [k \in 1..7 |-> None]]
    /\ fs = [p \in Paths |-> Absent]
    /\ dirs = {}
    /\ pc = "idle"
    /\ content = <<>>
    /\ pos = 0
    /\ err = ""
    /\ run = 0
    /\ from = "idle"
    /\ prev = Absent
    /\ ints = 0

FindInit ==
    /\ \E prefix \in FindPrefixes, sources \in SourceMaps :
          ff = [pc |-> "call", prefix |-> prefix, sources |-> sources,
                result |-> <<>>]
    /\ batch = [pc |-> "idle"]
    /\ yn = [pc |-> "idle"]
    /\ XResting
    /\ OthersResting

\* find_files returns
FFReturn ==
    /\ ff.pc = "call"
    /\ ff' = [ff EXCEPT !.pc = "returned",
                        !.result = find_files(ff.prefix, ff.sources)]
    /\ UNCHANGED <<cf, avars, batch, yn, xvars>>

FindNext == FFReturn

SpecFind == FindInit /\ [][FindNext]_vars

\* ------------------------------------------------------------------------
\* Properties of find_files (checked under SpecFind)
\* ------------------------------------------------------------------------
\* the last component of the path starts with the prefix and an underscore
HasPrefixedName(path, prefix) ==
    \E i \in 0..Len(path) :
        /\ i = 0 \/ path[i] = SEP
        /\ \A j \in (i + 1)..Len(path) : path[j] # SEP
        /\ Len(path) - i >= Len(prefix) + 1
        /\ \A j \in 1..Len(prefix) : path[i + j] = prefix[j]
        /\ path[i + Len(prefix) + 1] = UNDERSCORE

\* the paths of the k-th source that match, in their order
Hits(k) ==
    SelectSeq(ff.sources[k].files, LAMBDA p : HasPrefixedName(p, ff.prefix))

\* C14: find_files returns, for the first source in mapping order that has a
\* path whose basename starts with prefix + '_', all such paths of that
\* source in their order, and [] when no source has one; a source without a
\* match is skipped, and paths of two sources are never mixed.
C14_FindFiles ==
    ff.pc = "returned" =>
        LET with == {k \in 1..Len(ff.sources) : Hits(k) # <<>>}
        IN  IF with = {} THEN ff.result = <<>>
            ELSE \E k \in with :
                    /\ \A j \in with : k <= j
                    /\ ff.result = Hits(k)

\* the first source has paths but no match, and the two different matches of
\* the second source are returned in their order
C14_Witness ==
    /\ ff.pc = "returned"
    /\ Len(ff.sources) = 2
    /\ ff.sources[1].files # <<>>
    /\ Hits(1) = <<>>
    /\ Len(ff.result) = 2
    /\ ff.result[1] # ff.result[2]
    /\ ff.result = ff.sources[2].files

\* ------------------------------------------------------------------------
\* The batch anonymiser: main of anonymiser.py
\* ------------------------------------------------------------------------
\* faulty variant: the extension is compared as it is written
lower_not(str) == str

\* str.lower, for the letters A..Z
lower(str) ==
    [i \in 1..Len(str) |->
        IF str[i] >= 65 /\ str[i] <= 90 THEN str[i] + 32 ELSE str[i]]

\* ".eeg"
EEG_EXT == <<46, 101, 101, 103>>

\* the filter on the listed files
is_eeg(path) == endswith(lower(path), EEG_EXT)

\* the order of Python strings: by code point, a proper prefix first
RECURSIVE str_less(_, _)
str_less(a, b) ==
    IF a = <<>> THEN b # <<>>
    ELSE IF b = <<>> THEN FALSE
    ELSE IF Head(a) # Head(b) THEN Head(a) < Head(b)
    ELSE str_less(Tail(a), Tail(b))

RECURSIVE insert_sorted(_, _)
insert_sorted(item, list) ==
    IF list = <<>> THEN <<item>>
    ELSE IF str_less(item, Head(list)) THEN <<item>> \o list
    ELSE <<Head(list)>> \o insert_sorted(item, Tail(list))

\* faulty variant: the files are taken in the order of the walk
sorted_not(list) == list

\* sorted() of a list of strings
RECURSIVE sorted(_)
sorted(list) ==
    IF list = <<>> THEN <<>>
    ELSE insert_sorted(Head(list), sorted(Tail(list)))

\* os.path.join of a folder and a relative path
os_join(folder, rel) == folder \o <<SEP>> \o rel

\* os.path.relpath of a file below the folder start
relpath(path, start) == SubSeq(path, Len(start) + 2, Len(path))

\* file_path of main: in place, or below the destination
file_path(destination_path, path, start) ==
    IF destination_path = None THEN path
    ELSE os_join(destination_path, relpath(path, start))

\* list(files_list): the elements of a set in an order that is not specified
Listings(S) ==
    { l \in UNION { [1..n -> S] : n \in 0..Cardinality(S) } :
        \A i \in 1..Len(l) : \A j \in 1..Len(l) : l[i] = l[j] => i = j }

\* the content of a listed file: a recording, or one cut at 500 bytes
batch_file(short, path) == IF path \in short THEN ShortFile ELSE RecFile

\* what a call of anonymise_eeg (verbose) can do: MemoryError at any time;
\* display_fields joins the header and raises TypeError when
\* extract_header returned None, the call returns otherwise
outcomes(short, path) ==
    {"MemoryError"} \cup
    { IF extract_header_lines(batch_file(short, path), 0) = None
      THEN "TypeError" ELSE "ok" }

\* the for loop takes the next file, or ends
advance(b) ==
    IF b.i < Len(b.files) THEN [b EXCEPT !.i = @ + 1, !.pc = "file"]
    ELSE [b EXCEPT !.pc = "done"]

\* try / except MemoryError around the first call: any other exception
\* leaves main
after_call(b, out) ==
    IF out = "ok" THEN advance(b)
    ELSE IF out = "MemoryError" THEN [b EXCEPT !.pc = "retry"]
    ELSE [b EXCEPT !.pc = "aborted"]

\* faulty variant: the retry is repeated until the call returns
after_retry_again(b, out) ==
    IF out = "ok" THEN advance(b)
    ELSE IF out = "MemoryError" THEN [b EXCEPT !.pc = "retry"]
    ELSE [b EXCEPT !.pc = "aborted"]

\* try / except MemoryError around the second call
after_retry(b, out) ==
    IF out = "ok" \/ out = "MemoryError" THEN advance(b)
    ELSE [b EXCEPT !.pc = "aborted"]

BatchInit ==
    /\ \E walk \in Listings(BatchFiles), destination_path \in {None, DESTROOT},
          use_folder_as_name \in BOOLEAN,
          short \in {{}} \cup {{f} : f \in BatchFiles} :
          /\ \A f \in short : \E i \in 1..Len(walk) : walk[i] = f
          /\ batch = [pc |-> "start", path |-> ROOT,
                      destination_path |-> destination_path,
                      use_folder_as_name |-> use_folder_as_name,
                      walk |-> walk, short |-> short,
                      files |-> <<>>, number_of_files |-> 0, i |-> 0,
                      log |-> <<>>]
    /\ ff = [pc |-> "idle"]
    /\ yn = [pc |-> "idle"]
    /\ XResting
    /\ OthersResting

\* main lists the files, keeps the recordings and sorts them
BatchStart ==
    /\ batch.pc = "start"
    /\ LET files_in_dataset == SelectSeq(batch.walk, is_eeg)
           todo == sorted(files_in_dataset)
       IN  batch' = [batch EXCEPT
                        !.files = todo,
                        !.number_of_files = Len(files_in_dataset),
                        !.i = IF todo = <<>> THEN 0 ELSE 1,
                        !.pc = IF todo = <<>> THEN "done" ELSE "file"]
    /\ UNCHANGED <<cf, avars, ff, yn, xvars>>

\* what main writes and calls for the current file
event(kind, out) ==
    LET file_ == batch.files[batch.i]
    IN  [ev |-> kind, index |-> batch.i, src |-> file_,
         dst |-> file_path(batch.destination_path, file_, batch.path),
         name |-> field_name(batch.use_folder_as_name, file_),
         out |-> out]

\* one pass of the loop body up to the end of the first call
BatchCall ==
    /\ batch.pc = "file"
    /\ \E out \in outcomes(batch.short, batch.files[batch.i]) :
          batch' = [after_call(batch, out) EXCEPT
                       !.log = @ \o <<event("print", ""), event("call", out)>>]
    /\ UNCHANGED <<cf, avars, ff, yn, xvars>>

\* the handler of the first MemoryError: the second call
BatchRetry ==
    /\ batch.pc = "retry"
    /\ \E out \in outcomes(batch.short, batch.files[batch.i]) :
          batch' = [after_retry(batch, out) EXCEPT
                       !.log = @ \o <<event("call", out)>> \o
                               (IF out = "MemoryError"
                                THEN <<event("traceback", out)>> ELSE <<>>)]
    /\ UNCHANGED <<cf, avars, ff, yn, xvars>>

BatchNext == BatchStart \/ BatchCall \/ BatchRetry

SpecBatch == BatchInit /\ [][BatchNext]_vars

\* ------------------------------------------------------------------------
\* Properties of the batch anonymiser (checked under SpecBatch)
\* ------------------------------------------------------------------------
\* the calls of anonymise_eeg on a file, in the order they were made
CallsOf(f) == SelectSeq(batch.log, LAMBDA e : e.ev = "call" /\ e.src = f)

\* the recordings of the run
Recordings == {batch.files[k] : k \in 1..Len(batch.files)}

BatchEnded == batch.pc \in {"done", "aborted"}

\* the loop is past the k-th file
Past(k) == batch.i > k \/ (batch.i = k /\ batch.pc = "done")

\* C15: anonymise_eeg is called at most twice for a file; the second call is
\* made exactly when the first raised MemoryError; when the second raises
\* MemoryError too, the traceback is written, the file is given up and the
\* loop goes on with the next file; there is never a third call.
C15_Retry ==
    \A k \in 1..Len(batch.files) :
        LET c == CallsOf(batch.files[k])
        IN  /\ Len(c) <= 2
            /\ Len(c) = 2 => c[1].out = "MemoryError"
            /\ (c # <<>> /\ c[1].out = "MemoryError"
                  /\ ~(batch.i = k /\ batch.pc = "retry")) => Len(c) = 2
            /\ (Len(c) = 2 /\ c[2].out = "MemoryError") =>
                  /\ Past(k)
                  /\ \E p \in 2..Len(batch.log) :
                        /\ batch.log[p].ev = "traceback"
                        /\ batch.log[p].src = batch.files[k]
                        /\ batch.log[p - 1] = c[2]
                  /\ (BatchEnded /\ k < Len(batch.files)) =>
                        CallsOf(batch.files[k + 1]) # <<>>

\* both calls on the first of two recordings raised MemoryError, and the
\* second recording was processed at the first call
C15_Witness ==
    /\ batch.pc = "done"
    /\ Len(batch.files) = 2
    /\ Len(CallsOf(batch.files[1])) = 2
    /\ CallsOf(batch.files[1])[2].out = "MemoryError"
    /\ Len(CallsOf(batch.files[2])) = 1
    /\ CallsOf(batch.files[2])[1].out = "ok"

\* C16: an error of one file that is not a MemoryError (here the truncated
\* header) is not retried, ends the work on that file only, and the loop goes
\* on: every later file of the batch is processed.
C16_Original ==
    /\ \A k \in 1..Len(batch.files) :
          LET c == CallsOf(batch.files[k])
          IN  (c # <<>> /\ c[1].out = "TypeError") => Len(c) = 1
    /\ BatchEnded => \A f \in Recordings : CallsOf(f) # <<>>

\* code points in the order of Python strings, stated without recursion
Before(a, b) ==
    \E n \in 0..Len(a) :
        /\ n <= Len(b)
        /\ \A j \in 1..n : a[j] = b[j]
        /\ \/ n = Len(a) /\ n < Len(b)
           \/ n < Len(a) /\ n < Len(b) /\ a[n + 1] < b[n + 1]

\* the progress lines main has written
Progress == SelectSeq(batch.log, LAMBDA e : e.ev = "print")

\* C17: the files are processed in ascending order of their paths whatever
\* the order of the walk, one at a time (all calls on a file are made before
\* the next file begins), and the progress index of the k-th file is k.
C17_Order ==
    /\ \A k \in 1..Len(Progress) : Progress[k].index = k
    /\ \A k \in 1..(Len(Progress) - 1) :
          Before(Progress[k].src, Progress[k + 1].src)
    /\ \A p \in 1..Len(batch.log) : \A q \in p..Len(batch.log) :
          /\ batch.log[p].index <= batch.log[q].index
          /\ batch.log[p].index = batch.log[q].index =>
                batch.log[p].src = batch.log[q].src
    /\ \A p \in 1..Len(batch.log) :
          /\ \E i \in 1..Len(batch.walk) : batch.walk[i] = batch.log[p].src
          /\ batch.log[p].ev = "print" =>
                (p = 1 \/ batch.log[p - 1].index < batch.log[p].index)
    /\ batch.pc = "done" =>
          {Progress[k].src : k \in 1..Len(Progress)} = Recordings

\* the walk listed three recordings in descending order; they were processed
\* in ascending order, the second one at its retry
C17_Witness ==
    /\ batch.pc = "done"
    /\ Len(Progress) = 3
    /\ \E i \in 1..Len(batch.walk) : \E j \in 1..Len(batch.walk) :
          /\ i < j
          /\ batch.walk[i] = Progress[3].src
          /\ batch.walk[j] = Progress[1].src
    /\ Len(CallsOf(Progress[2].src)) = 2
    /\ Progress[3].index = 3

\* the path ends in ".eeg", in lower or upper case letters
EndsInEeg(path) ==
    /\ Len(path) >= 4
    /\ path[Len(path) - 3] = 46
    /\ path[Len(path) - 2] \in {101, 69}
    /\ path[Len(path) - 1] \in {101, 69}
    /\ path[Len(path)] \in {103, 71}

Listed == {batch.walk[i] : i \in 1..Len(batch.walk)}

NoError == \A p \in 1..Len(batch.log) : batch.log[p].out \in {"", "ok"}

\* C18: the files processed are exactly the listed files whose path ends in
\* '.eeg' in any letter case, each exactly once when no error occurs; the
\* destination of a file is the destination root joined with the path of the
\* file relative to the source root, and the file itself when no destination
\* root is given.
C18_Selection ==
    /\ batch.pc # "start" => Recordings = {f \in Listed : EndsInEeg(f)}
    /\ (batch.pc = "done" /\ NoError) =>
          \A f \in Listed :
              Len(CallsOf(f)) = IF EndsInEeg(f) THEN 1 ELSE 0
    /\ \A p \in 1..Len(batch.log) :
          LET e == batch.log[p]
          IN  IF batch.destination_path = None THEN e.dst = e.src
              ELSE \E rel \in {SubSeq(e.src, n, Len(e.src)) :
                                  n \in 1..Len(e.src)} :
                      /\ e.src = batch.path \o <<SEP>> \o rel
                      /\ e.dst = batch.destination_path \o <<SEP>> \o rel

\* with a destination root, a walk that listed "in/d.txt" and three
\* recordings ended without an error; "in/B.EEG" went to "out/B.EEG" and the
\* recording of the subfolder to "out/a/c.eeg"
C18_Witness ==
    /\ batch.pc = "done"
    /\ NoError
    /\ batch.destination_path = DESTROOT
    /\ Len(batch.walk) = 4
    /\ Len(Progress) = 3
    /\ Progress[1].dst = <<111, 117, 116, 47, 66, 46, 69, 69, 71>>
    /\ Progress[2].dst = <<111, 117, 116, 47, 97, 47, 99, 46, 101, 101, 103>>

\* ------------------------------------------------------------------------
\* The confirmation gate: handle_yes_no of utils.py and the same lines at
\* the end of anonymiser.py
\* ------------------------------------------------------------------------
MaxPrompts == 3

\* ('y', 'yes') and ('n', 'no')
YES_WORDS == { <<121>>, <<121, 101, 115>> }
NO_WORDS == { <<110>>, <<110, 111>> }

\* faulty variant: an empty answer counts as yes
answer_default_yes(text) ==
    IF lower(text) \in NO_WORDS THEN "exit"
    ELSE IF lower(text) \in YES_WORDS \/ text = <<>> THEN "proceed"
    ELSE "prompt"

\* utils.py: the answer is compared with the no words first
answer(text) ==
    IF lower(text) \in NO_WORDS THEN "exit"
    ELSE IF lower(text) \in YES_WORDS THEN "proceed"
    ELSE "prompt"

\* anonymiser.py: the answer is compared with the yes words first
answer_inline(text) ==
    IF lower(text) \in YES_WORDS THEN "proceed"
    ELSE IF lower(text) \in NO_WORDS THEN "exit"
    ELSE "prompt"

\* "y", "Y", "YeS", "n", "NO", "", "yess", "Sì"
Answers ==
    { <<121>>, <<89>>, <<89, 101, 83>>, <<110>>, <<78, 79>>, <<>>,
      <<121, 101, 115, 115>>, <<83, 236>> }

\* the flags argparse can produce: --yes and --no exclude each other
Flags == { [yes |-> FALSE, no |-> FALSE], [yes |-> TRUE, no |-> FALSE],
           [yes |-> FALSE, no |-> TRUE] }

YesNoInit ==
    /\ \E variant \in Variants, flags \in Flags :
          yn = [pc |-> "start", variant |-> variant, yes |-> flags.yes,
                no |-> flags.no, asked |-> 0, inputs |-> <<>>,
                interrupted |-> FALSE, started |-> FALSE]
    /\ ff = [pc |-> "idle"]
    /\ batch = [pc |-> "idle"]
    /\ XResting
    /\ OthersResting

\* the tests of the flags, up to the first prompt
YNEnter ==
    /\ yn.pc = "start"
    /\ yn' = IF yn.no THEN [yn EXCEPT !.pc = "exit"]
             ELSE IF yn.yes THEN [yn EXCEPT !.pc = "proceed"]
             ELSE [yn EXCEPT !.pc = "prompt", !.asked = 1]
    /\ UNCHANGED <<cf, avars, ff, batch, xvars>>

\* input() returns a line; the loop exits, breaks or asks again
YNInput ==
    /\ yn.pc = "prompt"
    /\ Len(yn.inputs) < MaxPrompts
    /\ \E text \in Answers :
          LET next == IF yn.variant = "utils" THEN answer(text)
                      ELSE answer_inline(text)
          IN  yn' = [yn EXCEPT !.pc = next,
                               !.inputs = Append(@, text),
                               !.asked = IF next = "prompt" THEN @ + 1 ELSE @]
    /\ UNCHANGED <<cf, avars, ff, batch, xvars>>

\* input() raises KeyboardInterrupt
YNInterrupt ==
    /\ yn.pc = "prompt"
    /\ yn' = [yn EXCEPT !.pc = "exit", !.interrupted = TRUE]
    /\ UNCHANGED <<cf, avars, ff, batch, xvars>>

\* the gate returned: the script goes on to process the files
YNMain ==
    /\ yn.pc = "proceed"
    /\ yn' = [yn EXCEPT !.pc = "main", !.started = TRUE]
    /\ UNCHANGED <<cf, avars, ff, batch, xvars>>

YesNoNext == YNEnter \/ YNInput \/ YNInterrupt \/ YNMain

SpecYesNo == YesNoInit /\ [][YesNoNext]_vars

\* ------------------------------------------------------------------------
\* Properties of the confirmation gate (checked under SpecYesNo)
\* ------------------------------------------------------------------------
\* y or yes, n or no, in any letter case
SaysYes(text) ==
    \/ Len(text) = 1 /\ text[1] \in {121, 89}
    \/ /\ Len(text) = 3
       /\ text[1] \in {121, 89}
       /\ text[2] \in {101, 69}
       /\ text[3] \in {115, 83}

SaysNo(text) ==
    \/ Len(text) = 1 /\ text[1] \in {110, 78}
    \/ Len(text) = 2 /\ text[1] \in {110, 78} /\ text[2] \in {111, 79}

\* the inputs that decide, by their place among the inputs
Deciding == {k \in 1..Len(yn.inputs) :
                SaysYes(yn.inputs[k]) \/ SaysNo(yn.inputs[k])}

Proceeds == yn.pc \in {"proceed", "main"}

\* C19: with --no the gate exits at once without a prompt; with --yes it
\* proceeds without a prompt; with neither it prompts until an input is one
\* of y, yes, n, no in any letter case, proceeds exactly when the first such
\* input is y or yes, and exits when it is n or no or when the interruption
\* comes first; every other input, the empty one too, brings another prompt;
\* the files are never processed after an exit.
C19_Gate ==
    /\ yn.no => yn.pc \in {"start", "exit"} /\ yn.asked = 0
    /\ (yn.yes /\ ~yn.no) => yn.pc \in {"start", "proceed", "main"} /\ yn.asked = 0
    /\ (~yn.yes /\ ~yn.no /\ yn.pc # "start") =>
          /\ Proceeds <=>
                \E k \in Deciding : SaysYes(yn.inputs[k])
          /\ yn.pc = "exit" <=>
                \/ \E k \in Deciding : SaysNo(yn.inputs[k])
                \/ yn.interrupted
          /\ yn.pc = "prompt" <=> (Deciding = {} /\ ~yn.interrupted)
          /\ \A k \in Deciding : k = Len(yn.inputs)
          /\ yn.interrupted => Deciding = {}
          /\ yn.asked = Len(yn.inputs) + (IF yn.pc = "prompt" \/ yn.interrupted
                                          THEN 1 ELSE 0)
    /\ yn.started <=> yn.pc = "main"
    /\ yn.pc = "exit" => ~yn.started

\* without a flag, the files are processed after an empty input, one that is
\* no answer, and "YeS"
C19_Witness ==
    /\ ~yn.yes
    /\ ~yn.no
    /\ yn.started
    /\ Len(yn.inputs) = 3
    /\ yn.inputs[1] = <<>>
    /\ ~SaysYes(yn.inputs[2])
    /\ yn.inputs[3] = <<89, 101, 83>>
    /\ yn.asked = 3

\* ------------------------------------------------------------------------
\* Specification of ensure_path with os.makedirs in full: relative paths of
\* code points below the current directory
\* ------------------------------------------------------------------------
MaxCalls == 2

\* the folders above a path: "d" for "d/e"
ancestors(path) ==
    { SubSeq(path, 1, j - 1) : j \in {i \in 2..Len(path) : path[i] = SEP} }

\* os.path.isdir: the empty path names no directory
isdir(tree, path) == path \in tree

\* os.makedirs: the missing ancestors, then mkdir of the path itself, which
\* raises for the empty path and for a path that exists
makedirs(tree, path) ==
    IF path = <<>> THEN [tree |-> tree, err |-> "FileNotFoundError"]
    ELSE IF path \in tree THEN [tree |-> tree, err |-> "FileExistsError"]
    ELSE [tree |-> tree \cup ancestors(path) \cup {path}, err |-> ""]

\* ensure_path on a tree of directories
ensure_dirs(tree, path) ==
    IF ~isdir(tree, path) THEN makedirs(tree, path)
    ELSE [tree |-> tree, err |-> ""]

\* "", "d", "d/e", "g"
EnsurePaths == { <<>>, <<100>>, <<100, 47, 101>>, <<103>> }

\* "a.eeg", "d/a.eeg", "d/e/a.eeg", "g/a.eeg"
EnsureDestinations ==
    { <<97, 46, 101, 101, 103>>, <<100, 47, 97, 46, 101, 101, 103>>,
      <<100, 47, 101, 47, 97, 46, 101, 101, 103>>,
      <<103, 47, 97, 46, 101, 101, 103>> }

\* the directories that exist below the current directory
Trees ==
    { t \in SUBSET (EnsurePaths \ {<<>>}) :
        \A d \in t : ancestors(d) \subseteq t }

EnsureInit ==
    /\ \E tree \in Trees : ep = [pc |-> "ready", tree |-> tree, calls |-> <<>>]
    /\ ff = [pc |-> "idle"] /\ batch = [pc |-> "idle"] /\ yn = [pc |-> "idle"]
    /\ dm = [pc |-> "idle"] /\ cv = [pc |-> "idle"] /\ co = [pc |-> "idle"]
    /\ OthersResting

\* the call, and what it left
ensure_call(via, path) ==
    LET r == ensure_dirs(ep.tree, path)
    IN  [ep EXCEPT !.tree = r.tree,
                   !.calls = Append(@, [via |-> via, path |-> path,
                                        before |-> ep.tree, after |-> r.tree,
                                        err |-> r.err])]

\* ensure_path(path)
EPCall ==
    /\ Len(ep.calls) < MaxCalls
    /\ \E path \in EnsurePaths : ep' = ensure_call("ensure_path", path)
    /\ UNCHANGED <<cf, avars, ff, batch, yn, dm, cv, co>>

\* the directory step of anonymise_eeg
EPDirectoryStep ==
    /\ Len(ep.calls) < MaxCalls
    /\ \E destination \in EnsureDestinations :
          ep' = ensure_call("anonymise_eeg", os_dirname(destination))
    /\ UNCHANGED <<cf, avars, ff, batch, yn, dm, cv, co>>

EnsureNext == EPCall \/ EPDirectoryStep

SpecEnsure == EnsureInit /\ [][EnsureNext]_vars

\* ------------------------------------------------------------------------
\* Properties of ensure_path (checked under SpecEnsure)
\* ------------------------------------------------------------------------
\* C21: ensure_path(p) leaves p and its ancestors as directories; on a
\* directory that exists it changes nothing and does not fail; and the
\* directory step of anonymise_eeg does not fail when the directory of the
\* destination exists, the current directory of a bare file name included.
C21_Original ==
    \A k \in 1..Len(ep.calls) :
        LET c == ep.calls[k]
        IN  /\ c.path # <<>> =>
                  /\ c.err = ""
                  /\ c.path \in c.after
                  /\ ancestors(c.path) \subseteq c.after
                  /\ c.before \subseteq c.after
            /\ c.path \in c.before => c.after = c.before
            /\ (c.via = "anonymise_eeg" /\ (c.path = <<>> \/ c.path \in c.before))
                  => c.err = "" /\ c.after = c.before

\* ------------------------------------------------------------------------
\* The Name field the batch anonymiser writes (checked under Spec)
\* ------------------------------------------------------------------------
\* the names of the last folder of the path: the path is x/name/file or
\* name/file
ParentNames(path) ==
    { SubSeq(path, i + 1, j - 1) :
        <<i, j>> \in { ij \in (0..Len(path)) \X (1..Len(path)) :
                        /\ ij[1] < ij[2]
                        /\ ij[1] = 0 \/ path[ij[1]] = SEP
                        /\ path[ij[2]] = SEP
                        /\ \A m \in (ij[1] + 1)..(ij[2] - 1) : path[m] # SEP
                        /\ \A m \in (ij[2] + 1)..Len(path) : path[m] # SEP } }

\* C22: with --parent_folder_as_name_field the Name field [314,364) of an
\* output file of the batch anonymiser holds the name of the folder of the
\* source file, cut to 50 bytes and padded with 0x00 to offset 364 (and is
\* blank without the flag); the six other fields are written in the same
\* way, as 0x00, with the flag and without it.
C22_FolderName ==
    \A flag \in BOOLEAN : \A path \in BatchFiles \cup {LongFolderFile} :
        ( /\ cfg.variant = "anonymiser"
          /\ pc = "done"
          /\ Len(SourceAtEntry) >= HEADER_SIZE
          /\ cfg.args = main_args(flag, path) )
        => /\ flag => \E name \in ParentNames(path) :
                         IsField(dstfile, 314, 364, name)
           /\ ~flag => IsField(dstfile, 314, 364, <<>>)
           /\ IsField(dstfile, 364, HEADER_SIZE - 1, <<>>)

\* a recording below a folder with a name of 51 letters was written to a new
\* destination: the Name field holds the first 50 letters, the Surname field
\* is blank, and the last byte of the header is the source's
C22_Witness ==
    /\ cfg.variant = "anonymiser"
    /\ pc = "done"
    /\ cfg.src = "rec"
    /\ cfg.dst = "new"
    /\ cfg.args = main_args(TRUE, LongFolderFile)
    /\ dstfile[315] = LongFolderFile[4]
    /\ dstfile[364] = LongFolderFile[53]
    /\ dstfile[365] = 0
    /\ srcfile[365] # 0
    /\ dstfile[HEADER_SIZE] = srcfile[HEADER_SIZE]

\* ------------------------------------------------------------------------
\* The dataset maker: main of dataset_maker.py
\* ------------------------------------------------------------------------
\* a spreadsheet cell without text: pandas gives the float nan
NaN == <<-3>>

\* isinstance(cell, str)
is_str(cell) == cell # NaN

\* sub in str
contains(str, sub) ==
    \E i \in 0..(Len(str) - Len(sub)) : SubSeq(str, i + 1, i + Len(sub)) = sub

\* "p", "q": the data sources of the configuration file
DataSources == { <<112>>, <<113>> }

\* "p/r_1.eeg", "p/x.txt" below "p"; "q/r_1.eeg", "q/s_1.EEG" below "q"
TreeOf(root) ==
    IF root = <<112>>
    THEN { <<112, 47, 114, 95, 49, 46, 101, 101, 103>>,
           <<112, 47, 120, 46, 116, 120, 116>> }
    ELSE { <<113, 47, 114, 95, 49, 46, 101, 101, 103>>,
           <<113, 47, 115, 95, 49, 46, 69, 69, 71>> }

\* the cells of the columns Paths of a row: "d" or empty
PathCells == { <<100>>, NaN }

\* the cells of the columns Files of a row: "r" and "s" name recordings
FileCells == { << <<114>>, NaN >>, << <<114>>, <<115>> >>, << NaN, <<115>> >> }

Rows == [destination_paths : PathCells \X PathCells, files : FileCells]

\* a second row, with a destination for its file
LastRow == [destination_paths |-> << <<100>>, <<100>> >>,
            files |-> << <<115>>, NaN >>]

Sheets == { <<r>> : r \in Rows } \cup { <<r, LastRow>> : r \in Rows }

\* faulty variant: the lists are taken in the order the workers finished
collect_unordered(results, finish_order) ==
    [k \in 1..Len(finish_order) |-> results[finish_order[k]]]

\* pool.map: the results in the order of the tasks
collect(results, finish_order) == results

\* step 2: eegs_lists, one entry per source in the order of the sources
filter_eegs(data_sources, files_lists) ==
    [k \in 1..Len(data_sources) |->
        [key |-> data_sources[k], files |-> SelectSeq(files_lists[k], is_eeg)]]

\* 'L{0}/EEG2'.format(file_[:4])
path_fragment(file_) ==
    <<76>> \o SubSeq(file_, 1, Min(4, Len(file_))) \o <<47, 69, 69, 71, 50>>

\* the first file of the cluster with this name that has the fragment in its
\* path, else the first file with this name
best_path(cluster, record_part, fragment) ==
    LET named == SelectSeq(cluster, LAMBDA f : basename(f) = record_part)
        liked == SelectSeq(named, LAMBDA f : contains(f, fragment))
    IN  IF liked # <<>> THEN liked[1] ELSE named[1]

\* the destination of the file_index-th file of a row: its cell or, when
\* the cell is no string, the list comprehension that calls isinstance with
\* one argument, which raises TypeError on its first element
resolve_destination(cells, file_index) ==
    IF is_str(cells[file_index])
    THEN [destination |-> cells[file_index], err |-> ""]
    ELSE [destination |-> <<>>, err |-> "TypeError"]

\* the pair queued for one part of a recording
queued(destination_path, destination, best, record_part) ==
    IF destination # <<>>
    THEN <<best, os_join(os_join(destination_path, destination), record_part)>>
    ELSE <<best, os_join(destination_path, record_part)>>

\* step 4 for the n-th cell of the sheet, rows first: the pairs queued so
\* far, or the exception that ends main
RECURSIVE match_records(_, _, _, _, _)
match_records(sheet, eegs_lists, destination_path, n, pairs) ==
    LET width == Len(sheet[1].files)
        row == sheet[((n - 1) \div width) + 1]
        file_index == ((n - 1) % width) + 1
        file_ == row.files[file_index]
    IN  IF n > Len(sheet) * width THEN [pairs |-> pairs, err |-> ""]
        ELSE IF ~is_str(file_)
        THEN match_records(sheet, eegs_lists, destination_path, n + 1, pairs)
        ELSE LET file_cluster == find_files(file_, eegs_lists)
                 unique_names == {basename(file_cluster[k]) :
                                     k \in 1..Len(file_cluster)}
             IN  IF unique_names = {}
                 THEN match_records(sheet, eegs_lists, destination_path,
                                    n + 1, pairs)
                 ELSE LET record_part == CHOOSE name \in unique_names : TRUE
                          best == best_path(file_cluster, record_part,
                                            path_fragment(file_))
                          res == resolve_destination(row.destination_paths,
                                                     file_index)
                      IN  IF res.err # ""
                          THEN [pairs |-> pairs, err |-> res.err]
                          ELSE match_records(sheet, eegs_lists,
                                  destination_path, n + 1,
                                  Append(pairs, queued(destination_path,
                                      res.destination, best, record_part)))

\* anonymise_eeg of dataset_maker.py on a recording: the file it leaves at
\* the destination, given the file that is there (Absent when none)
exported(source, old, name) ==
    LET patched(h) ==
            [err |-> IF h.content = None THEN "TypeError" ELSE h.err,
             file |-> IF h.err # "" \/ h.content = None THEN old
                      ELSE write_at(IF old = Absent THEN source ELSE old,
                                    0, h.content)]
    IN  patched(CHOOSE h \in {anonymised_header("anonymiser", source,
                     [k \in 1..7 |-> IF k = 1 THEN name ELSE Unsupplied])} : TRUE)

DatasetInit ==
    /\ \E data_sources \in Listings(DataSources), sheet \in Sheets,
          anonymise \in BOOLEAN, parent_folder_as_name \in BOOLEAN :
          /\ Len(data_sources) = Cardinality(DataSources)
          /\ dm = [pc |-> "listing", data_sources |-> data_sources,
                   sheet |-> sheet, anonymise |-> anonymise,
                   parent_folder_as_name |-> parent_folder_as_name,
                   destination_path |-> DESTROOT,
                   task |-> [k \in 1..Len(data_sources) |-> "pending"],
                   results |-> [k \in 1..Len(data_sources) |-> <<>>],
                   finish_order |-> <<>>,
                   built_after |-> {},
                   eegs_lists |-> <<>>,
                   original_destination |-> <<>>,
                   i |-> 0, out |-> <<>>, err |-> ""]
    /\ ff = [pc |-> "idle"] /\ batch = [pc |-> "idle"] /\ yn = [pc |-> "idle"]
    /\ ep = [pc |-> "idle"] /\ cv = [pc |-> "idle"] /\ co = [pc |-> "idle"]
    /\ OthersResting

\* a worker of the pool takes the listing of one source
DMWorkerStart ==
    /\ dm.pc = "listing"
    /\ \E k \in 1..Len(dm.data_sources) :
          /\ dm.task[k] = "pending"
          /\ dm' = [dm EXCEPT !.task[k] = "running"]
    /\ UNCHANGED <<cf, avars, ff, batch, yn, ep, cv, co>>

\* the worker returns list_files(source): the files in some order
DMWorkerFinish ==
    /\ dm.pc = "listing"
    /\ \E k \in 1..Len(dm.data_sources) :
          /\ dm.task[k] = "running"
          /\ \E files \in Listings(TreeOf(dm.data_sources[k])) :
                /\ Len(files) = Cardinality(TreeOf(dm.data_sources[k]))
                /\ dm' = [dm EXCEPT !.task[k] = "finished",
                                    !.results[k] = files,
                                    !.finish_order = Append(@, k)]
    /\ UNCHANGED <<cf, avars, ff, batch, yn, ep, cv, co>>

\* pool.map returns when every task is finished; step 2 keeps the .eeg files
DMFilter ==
    /\ dm.pc = "listing"
    /\ \A k \in 1..Len(dm.data_sources) : dm.task[k] = "finished"
    /\ dm' = [dm EXCEPT
                 !.pc = "match",
                 !.built_after = {k \in 1..Len(dm.data_sources) :
                                     dm.task[k] = "finished"},
                 !.eegs_lists = filter_eegs(dm.data_sources,
                                    collect(dm.results, dm.finish_order))]
    /\ UNCHANGED <<cf, avars, ff, batch, yn, ep, cv, co>>

\* steps 3 and 4: the rows of the sheet are matched with the sources
DMMatch ==
    /\ dm.pc = "match"
    /\ LET m == match_records(dm.sheet, dm.eegs_lists, dm.destination_path,
                              1, <<>>)
       IN  dm' = [dm EXCEPT
                     !.original_destination = IF m.err = "" THEN m.pairs ELSE <<>>,
                     !.err = m.err,
                     !.i = IF m.err = "" /\ m.pairs # <<>> THEN 1 ELSE 0,
                     !.pc = IF m.err # "" THEN "crashed"
                            ELSE IF m.pairs = <<>> THEN "done" ELSE "export"]
    /\ UNCHANGED <<cf, avars, ff, batch, yn, ep, cv, co>>

\* the bytes of a recording of the sources
recording(path) == RecFile

\* the file at a path of the destination tree
OutFile(out, path) ==
    LET at == {k \in 1..Len(out) : out[k].path = path}
    IN  IF at = {} THEN Absent ELSE out[CHOOSE k \in at : TRUE].file

\* step 5 for one pair: anonymise_eeg, whatever the value of anonymise
DMExport ==
    /\ dm.pc = "export"
    /\ LET recording_file == dm.original_destination[dm.i]
           name == field_name(dm.parent_folder_as_name, recording_file[2])
           old == OutFile(dm.out, recording_file[2])
           kept == SelectSeq(dm.out, LAMBDA o : o.path # recording_file[2])
       IN  \E e \in {exported(recording(recording_file[1]), old, name)} :
           dm' = [dm EXCEPT
                     !.out = IF e.err # "" THEN @
                             ELSE Append(kept, [path |-> recording_file[2],
                                                source |-> recording_file[1],
                                                file |-> e.file]),
                     !.err = e.err,
                     !.i = IF e.err = "" /\ dm.i < Len(dm.original_destination)
                           THEN @ + 1 ELSE @,
                     !.pc = IF e.err # "" THEN "crashed"
                            ELSE IF dm.i < Len(dm.original_destination)
                            THEN "export" ELSE "done"]
    /\ UNCHANGED <<cf, avars, ff, batch, yn, ep, cv, co>>

DatasetNext ==
    DMWorkerStart \/ DMWorkerFinish \/ DMFilter \/ DMMatch \/ DMExport

SpecDataset == DatasetInit /\ [][DatasetNext]_vars

\* ------------------------------------------------------------------------
\* Properties of the dataset maker (checked under SpecDataset)
\* ------------------------------------------------------------------------
\* the cells of the sheet that name a recording found in the sources
Matched ==
    { rc \in (1..Len(dm.sheet)) \X (1..2) :
        /\ is_str(dm.sheet[rc[1]].files[rc[2]])
        /\ find_files(dm.sheet[rc[1]].files[rc[2]], dm.eegs_lists) # <<>> }

\* those whose row has no destination: the cell of the file is no string,
\* and no other cell of the columns Paths is one
Lost ==
    { rc \in Matched :
        \A c \in 1..2 : ~is_str(dm.sheet[rc[1]].destination_paths[c]) }

DMListed == dm.pc # "listing"
DMMatched == dm.pc \in {"export", "done", "crashed"}

\* C23: a matched record for which no destination can be resolved is logged
\* and skipped: no pair is queued for it, nothing is copied for it, and the
\* other records are still processed.
C23_Original ==
    (DMMatched /\ Lost # {}) =>
        /\ dm.pc # "crashed"
        /\ Len(dm.original_destination) = Cardinality(Matched \ Lost)
        /\ dm.pc = "done" => Len(dm.out) > 0 \/ Matched = Lost

\* C24: with --non_anonymised (anonymise = False) every file written to the
\* destination tree is byte-identical to its source.
C24_Original ==
    ~dm.anonymise =>
        \A k \in 1..Len(dm.out) : dm.out[k].file = recording(dm.out[k].source)

\* C25: whatever the order in which the listing workers run and finish, the
\* mapping given to find_files is built only when every worker has finished,
\* holds for each configured source exactly the '.eeg' files below that
\* source, and keeps the sources in their configured order, so that the
\* earlier source wins in find_files.
C25_Listing ==
    /\ ~DMListed => dm.eegs_lists = <<>>
    /\ DMListed =>
          /\ dm.built_after = 1..Len(dm.data_sources)
          /\ Len(dm.finish_order) = Len(dm.data_sources)
          /\ Len(dm.eegs_lists) = Len(dm.data_sources)
          /\ \A k \in 1..Len(dm.data_sources) :
                LET entry == dm.eegs_lists[k]
                IN  /\ entry.key = dm.data_sources[k]
                    /\ {entry.files[n] : n \in 1..Len(entry.files)} =
                          {f \in TreeOf(dm.data_sources[k]) : EndsInEeg(f)}
                    /\ Len(entry.files) =
                          Cardinality({f \in TreeOf(dm.data_sources[k]) :
                                          EndsInEeg(f)})
                    /\ \A n \in 1..Len(entry.files) :
                          startswith(entry.files[n], entry.key \o <<SEP>>)
          /\ \A n \in 1..Len(dm.original_destination) :
                LET found == dm.original_destination[n][1]
                IN  \A k \in 1..Len(dm.data_sources) :
                        startswith(found, dm.data_sources[k] \o <<SEP>>) =>
                            \A j \in 1..(k - 1) :
                                \A f \in TreeOf(dm.data_sources[j]) :
                                    basename(f) # basename(found)

\* the worker of the second source finished first; the recording that both
\* sources hold was taken from the first source, "q"
C25_Witness ==
    /\ dm.pc = "done"
    /\ dm.data_sources = << <<113>>, <<112>> >>
    /\ dm.finish_order = <<2, 1>>
    /\ Len(dm.eegs_lists[1].files) = 2
    /\ Len(dm.eegs_lists[2].files) = 1
    /\ Len(dm.original_destination) >= 1
    /\ dm.original_destination[1][1] = <<113, 47, 114, 95, 49, 46, 101, 101, 103>>

\* ------------------------------------------------------------------------
\* The converter driver: convert_coh3_to_edf of utils.py
\* ------------------------------------------------------------------------
MaxDepth == 2

\* the offset of the byte the converter does not accept when it is not 0x00
FLAG_OFFSET == 424

\* the exceptions of pywinauto that the function handles, and one it does
\* not (the timeout of wait_for_process_exit)
KillErrors == {"ElementAmbiguousError", "MatchError"}
RetryErrors == KillErrors \cup {"ElementNotFoundError"}
GuiErrors == RetryErrors \cup {"TimeoutError"}

\* recordings: byte 424 is 0x00, byte 424 is not 0x00, and a file that ends
\* before byte 424
ConvKinds == {"clear", "flagged", "cut"}

ConvFile(kind) ==
    IF kind = "cut" THEN [i \in 1..FLAG_OFFSET |-> SrcByte(i - 1)]
    ELSE [i \in 1..HEADER_SIZE |->
             IF i = FLAG_OFFSET + 1
             THEN (IF kind = "flagged" THEN 1 ELSE 0)
             ELSE SrcByte(i - 1)]

\* file_.seek(424); file_.read(1): the byte, or nothing at the end of file
char_at(file, offset) ==
    IF offset < Len(file) THEN <<file[offset + 1]>> ELSE <<>>

\* file_.seek(424); file_.write(b'\x00') on a file opened 'rb+': a file that
\* ends before the offset is filled with 0x00 up to it
poke(file, offset, byte) ==
    IF offset < Len(file) THEN [file EXCEPT ![offset + 1] = byte]
    ELSE file \o [i \in 1..(offset - Len(file)) |-> 0] \o <<byte>>

\* faulty variant: the retry is the last one whatever the depth
next_depth_zero(depth) == 0

\* the depth of the retry
next_depth(depth) == depth - 1

\* faulty variant: the recording itself is opened 'rb+'
select_in_place(disk, eeg) ==
    [disk EXCEPT ![eeg] = poke(disk[eeg], FLAG_OFFSET, 0)]

\* the copy to the 'temp' folder, and the byte 424 of the copy set to 0x00
select_file(disk, eeg) ==
    [disk EXCEPT !.tempdir = TRUE,
                 !.temp = poke(disk[eeg], FLAG_OFFSET, 0)]

\* the finally clause: the 'temp' folder is removed when this call made a
\* path in it
cleanup(disk, frame) ==
    IF frame.path = "temp" /\ disk.tempdir
    THEN [disk EXCEPT !.tempdir = FALSE, !.temp = Absent]
    ELSE disk

\* a call of the function: its eeg_path ("rec" for the path of the caller,
\* "temp" for the copy), its depth, and its local variable path
Frame(eeg, depth) == [eeg |-> eeg, depth |-> depth, path |-> ""]

ConvertInit ==
    /\ \E kind \in ConvKinds, depth \in 0..MaxDepth :
          cv = [pc |-> "start", kind |-> kind, depth0 |-> depth,
                stack |-> <<Frame("rec", depth)>>,
                disk |-> [rec |-> ConvFile(kind), temp |-> Absent,
                          tempdir |-> FALSE],
                char_at_424 |-> <<>>, attempts |-> 0, kills |-> 0,
                killed |-> FALSE, exc |-> "", log |-> <<>>]
    /\ ff = [pc |-> "idle"] /\ batch = [pc |-> "idle"] /\ yn = [pc |-> "idle"]
    /\ ep = [pc |-> "idle"] /\ dm = [pc |-> "idle"] /\ co = [pc |-> "idle"]
    /\ OthersResting

Top == cv.stack[Len(cv.stack)]

\* the call begins: byte 424 of eeg_path is read, the converter is started
CVStart ==
    /\ cv.pc = "start"
    /\ cv' = [cv EXCEPT !.pc = "open",
                        !.char_at_424 = char_at(cv.disk[Top.eeg], FLAG_OFFSET),
                        !.attempts = @ + 1,
                        !.log = Append(@, [depth |-> Top.depth,
                                           after |-> cv.exc,
                                           killed |-> cv.killed]),
                        !.exc = ""]
    /\ UNCHANGED <<cf, avars, ff, batch, yn, ep, dm, co>>

\* start or connect raises
CVOpenFails ==
    /\ cv.pc = "open"
    /\ \E e \in GuiErrors : cv' = [cv EXCEPT !.pc = "except", !.exc = e]
    /\ UNCHANGED <<cf, avars, ff, batch, yn, ep, dm, co>>

\* the window is there: the file is selected, as a copy when byte 424 is
\* not 0x00
CVSelect ==
    /\ cv.pc = "open"
    /\ cv' = IF cv.char_at_424 # <<0>>
             THEN [cv EXCEPT !.pc = "drive",
                             !.disk = select_file(cv.disk, Top.eeg),
                             !.stack[Len(cv.stack)].path = "temp",
                             !.stack[Len(cv.stack)].eeg = "temp"]
             ELSE [cv EXCEPT !.pc = "drive"]
    /\ UNCHANGED <<cf, avars, ff, batch, yn, ep, dm, co>>

\* a step of the dialogue with the converter raises
CVDriveFails ==
    /\ cv.pc = "drive"
    /\ \E e \in GuiErrors : cv' = [cv EXCEPT !.pc = "except", !.exc = e]
    /\ UNCHANGED <<cf, avars, ff, batch, yn, ep, dm, co>>

\* the converter wrote the EDF file and exited
CVDriveDone ==
    /\ cv.pc = "drive"
    /\ cv' = [cv EXCEPT !.pc = "finally", !.exc = ""]
    /\ UNCHANGED <<cf, avars, ff, batch, yn, ep, dm, co>>

\* the except clauses: taskkill after an ambiguity or match error, then the
\* retry when depth is not 0; any other exception goes on to the caller
CVExcept ==
    /\ cv.pc = "except"
    /\ LET kill == cv.exc \in KillErrors
           retry == cv.exc \in RetryErrors /\ Top.depth # 0
       IN  cv' = [cv EXCEPT
                     !.kills = IF kill THEN @ + 1 ELSE @,
                     !.killed = kill,
                     !.stack = IF retry
                               THEN Append(@, Frame(Top.eeg, next_depth(Top.depth)))
                               ELSE @,
                     !.exc = IF cv.exc \in RetryErrors /\ ~retry THEN "" ELSE @,
                     !.pc = IF retry THEN "start" ELSE "finally"]
    /\ UNCHANGED <<cf, avars, ff, batch, yn, ep, dm, co>>

\* the finally clause, then the return to the caller, which is in its own
\* except clause and goes on to its finally clause
CVFinally ==
    /\ cv.pc = "finally"
    /\ cv' = [cv EXCEPT
                 !.disk = cleanup(cv.disk, Top),
                 !.stack = SubSeq(@, 1, Len(@) - 1),
                 !.pc = IF Len(cv.stack) > 1 THEN "finally"
                        ELSE IF cv.exc = "" THEN "returned" ELSE "raised"]
    /\ UNCHANGED <<cf, avars, ff, batch, yn, ep, dm, co>>

ConvertNext ==
    \/ CVStart \/ CVOpenFails \/ CVSelect \/ CVDriveFails \/ CVDriveDone
    \/ CVExcept \/ CVFinally

SpecConvert == ConvertInit /\ [][ConvertNext]_vars

\* every step of the call is taken in the end: no step waits for ever
SpecConvertLive == SpecConvert /\ WF_vars(ConvertNext)

Ended == cv.pc \in {"returned", "raised"}

\* the attempts of the call so far, in order: each one after the first comes
\* after one of the three handled errors of the attempt before, at a depth
\* one lower than the non-zero depth of that attempt, and after the kill
\* when the error was an ambiguity or match error
RetryPolicy ==
    /\ cv.attempts = Len(cv.log)
    /\ cv.attempts <= cv.depth0 + 1
    /\ \A i \in 1..Len(cv.log) :
          IF i = 1 THEN cv.log[i].depth = cv.depth0
          ELSE /\ cv.log[i].after \in RetryErrors
               /\ cv.log[i - 1].depth # 0
               /\ cv.log[i].depth = cv.log[i - 1].depth - 1
               /\ (cv.log[i].after \in KillErrors => cv.log[i].killed)
    /\ (cv.pc = "raised" => cv.exc \notin RetryErrors)

\* C26: utils.convert_coh3_to_edf called with depth d makes at most d + 1
\* attempts and always ends; an attempt after the first is made only after
\* ElementAmbiguousError, MatchError or ElementNotFoundError while depth is
\* not 0, at depth - 1, after the kill of the converter when the error was
\* an ambiguity or match error; the call raises none of the three errors
C26_BoundedRetry == [](cv.pc # "idle" => RetryPolicy) /\ <>Ended

\* the call of depth MaxDepth returned after MaxDepth + 1 attempts that all
\* failed, the last but one with a match error
C26_Witness ==
    /\ cv.pc = "returned"
    /\ cv.depth0 = MaxDepth
    /\ cv.attempts = MaxDepth + 1
    /\ cv.log[cv.attempts].after = "MatchError"
    /\ cv.kills >= 1

\* C30: utils.convert_coh3_to_edf leaves the bytes of the recording as they
\* were at every step; byte 424 is set to 0x00 in the copy of the 'temp'
\* folder only, and the folder is gone when the outermost call has returned
\* or raised
C30_RecordingKept ==
    cv.pc # "idle" =>
        /\ cv.disk.rec = ConvFile(cv.kind)
        /\ (cv.disk.temp # Absent =>
               /\ cv.disk.tempdir
               /\ char_at(cv.disk.temp, FLAG_OFFSET) = <<0>>
               /\ \A i \in 1..Len(cv.disk.rec) :
                     i # FLAG_OFFSET + 1 => cv.disk.temp[i] = cv.disk.rec[i])
        /\ (Ended => ~cv.disk.tempdir /\ cv.disk.temp = Absent)

\* a recording with byte 424 set was converted from the copy at the second
\* attempt; the call has returned, the recording is as it was
C30_Witness ==
    /\ cv.pc = "returned"
    /\ cv.kind = "flagged"
    /\ cv.attempts = 2
    /\ cv.log[2].after = "ElementNotFoundError"
    /\ char_at(cv.disk.rec, FLAG_OFFSET) = <<1>>

\* ------------------------------------------------------------------------
\* The batch converter: convert_coh3_to_edf and main of coh3toEDF.py
\* ------------------------------------------------------------------------
\* the number of nested calls the interpreter allows before it raises
\* RecursionError (sys.getrecursionlimit, scaled down)
MaxStack == 3

\* the working directory: "/w"
CWD == <<47, 119>>

\* os.path.abspath of a relative path
abspath(path) == CWD \o <<SEP>> \o path

\* ".EDF"
EDF_EXT == <<46, 69, 68, 70>>

\* file_[:-4] + '.EDF'
edf_name(file_) ==
    SubSeq(file_, 1, IF Len(file_) > 4 THEN Len(file_) - 4 ELSE 0) \o EDF_EXT

\* file_destination_path of main: next to the recording, or below the
\* destination at the relative path of the recording
file_destination_path(destination_path, file_, original_path) ==
    IF destination_path = None THEN edf_name(file_)
    ELSE os_join(destination_path, relpath(file_, abspath(original_path)))

\* step 1 of main: the recordings among the listed files, as absolute paths
eeg_files(walk) ==
    LET kept == SelectSeq(walk, LAMBDA f : is_eeg(basename(f)))
    IN  [k \in 1..Len(kept) |-> abspath(kept[k])]

\* "in/B.EEG", "in/a/c.eeg", "in/d.txt"
CohFiles == BatchFiles \ { <<105, 110, 47, 98, 46, 101, 101, 103>> }

CohInit ==
    /\ \E walk \in Listings(CohFiles), destination_path \in {None, DESTROOT},
          overwrite \in BOOLEAN,
          converted \in {{}} \cup {{f} : f \in CohFiles} :
          co = [pc |-> "start", original_path |-> ROOT,
                destination_path |-> destination_path,
                overwrite |-> overwrite, walk |-> walk,
                files |-> <<>>, index |-> 1,
                isfile |-> { file_destination_path(destination_path,
                                                   abspath(f), ROOT) :
                             f \in converted },
                tree |-> UNION { ancestors(abspath(f)) : f \in CohFiles },
                handed |-> <<>>, skipped |-> <<>>,
                level |-> 0, attempts |-> 0, exc |-> "", kills |-> 0,
                last_kill |-> FALSE]
    /\ ff = [pc |-> "idle"] /\ batch = [pc |-> "idle"] /\ yn = [pc |-> "idle"]
    /\ ep = [pc |-> "idle"] /\ dm = [pc |-> "idle"] /\ cv = [pc |-> "idle"]
    /\ OthersResting

\* step 1: the list of the recordings, sorted
COList ==
    /\ co.pc = "start"
    /\ co' = [co EXCEPT !.files = sorted(eeg_files(co.walk)), !.pc = "loop"]
    /\ UNCHANGED <<cf, avars, ff, batch, yn, ep, dm, cv>>

\* the body of the loop up to the call of the converter: the destination,
\* its folder, and the test of a file that is there already
COFile ==
    /\ co.pc = "loop"
    /\ co.index <= Len(co.files)
    /\ LET file_ == co.files[co.index]
           dest == file_destination_path(co.destination_path, file_,
                                         co.original_path)
           made == ensure_dirs(co.tree, os_dirname(dest))
       IN  IF made.err # ""
           THEN co' = [co EXCEPT !.pc = "raised", !.exc = made.err]
           ELSE IF dest \in co.isfile /\ ~co.overwrite
           THEN co' = [co EXCEPT !.tree = made.tree,
                                 !.skipped = Append(@, file_),
                                 !.index = @ + 1]
           ELSE co' = [co EXCEPT !.tree = made.tree,
                                 !.handed = Append(@,
                                     [eeg_path |-> file_, edf_path |-> dest,
                                      existed |-> dest \in co.isfile]),
                                 !.level = 1, !.attempts = 1,
                                 !.pc = "attempt"]
    /\ UNCHANGED <<cf, avars, ff, batch, yn, ep, dm, cv>>

\* the converter wrote the EDF file and exited: every nested call returns
COAttemptDone ==
    /\ co.pc = "attempt"
    /\ co' = [co EXCEPT
                 !.isfile = @ \cup {co.handed[Len(co.handed)].edf_path},
                 !.level = 0, !.index = @ + 1, !.pc = "loop"]
    /\ UNCHANGED <<cf, avars, ff, batch, yn, ep, dm, cv>>

\* an attempt raises one of the three handled errors: taskkill after an
\* ambiguity or match error, then the nested call, which the interpreter
\* refuses with RecursionError when the stack is full
COAttemptFails ==
    /\ co.pc = "attempt"
    /\ \E e \in RetryErrors :
          co' = IF co.level < MaxStack
                THEN [co EXCEPT !.kills = IF e \in KillErrors THEN @ + 1 ELSE @,
                                !.level = @ + 1, !.attempts = @ + 1]
                ELSE [co EXCEPT !.kills = IF e \in KillErrors THEN @ + 1 ELSE @,
                                !.exc = "RecursionError", !.pc = "raised"]
    /\ UNCHANGED <<cf, avars, ff, batch, yn, ep, dm, cv>>

\* an attempt raises another exception (the timeout of the wait): no clause
\* handles it, it leaves every nested call and main
COAttemptRaises ==
    /\ co.pc = "attempt"
    /\ co' = [co EXCEPT !.exc = "TimeoutError", !.pc = "raised"]
    /\ UNCHANGED <<cf, avars, ff, batch, yn, ep, dm, cv>>

\* after the loop: step 3, the kill of the converter when files were listed
COEnd ==
    /\ co.pc = "loop"
    /\ co.index > Len(co.files)
    /\ co' = [co EXCEPT !.last_kill = Len(co.files) # 0, !.pc = "done"]
    /\ UNCHANGED <<cf, avars, ff, batch, yn, ep, dm, cv>>

CohNext ==
    \/ COList \/ COFile \/ COAttemptDone \/ COAttemptFails
    \/ COAttemptRaises \/ COEnd

SpecCoh == CohInit /\ [][CohNext]_vars

\* every step of main is taken in the end
SpecCohLive == SpecCoh /\ WF_vars(CohNext)

\* C27: coh3toEDF.convert_coh3_to_edf returns after finitely many attempts
\* even when each of them raises one of the three handled errors: main is
\* left by no exception of the retries and reaches the end of its loop and
\* the final kill
C27_Original ==
    /\ [](co.pc = "raised" => co.exc = "TimeoutError")
    /\ <>(co.pc \in {"done", "raised"})

\* C28: every destination main hands to the converter is the path of the
\* recording, or its mirror below the destination, with '.eeg' replaced by
\* '.EDF'; a destination that exists is handed over only with overwrite
C28_Original ==
    co.pc # "idle" =>
        \A i \in 1..Len(co.handed) :
            /\ endswith(co.handed[i].edf_path, EDF_EXT)
            /\ co.handed[i].edf_path =
                  edf_name(IF co.destination_path = None
                           THEN co.handed[i].eeg_path
                           ELSE os_join(co.destination_path,
                                        relpath(co.handed[i].eeg_path,
                                                abspath(co.original_path))))
            /\ (co.handed[i].existed => co.overwrite)

\* ------------------------------------------------------------------------
\* Recovery of anonymise_eeg by a second run
\* ------------------------------------------------------------------------
\* the destination a run that nothing interrupts leaves, from the files the
\* first run found: the file at the destination, or else the copy of the
\* source, with the anonymised header written over its first bytes
Uninterrupted ==
    LET found == InitFS(cfg)
        base == IF found[dst] = Absent THEN found[SRC] ELSE found[dst]
    IN  CHOOSE f \in { write_at(base, 0,
                          anonymised_header(cfg.variant, found[SRC],
                                            cfg.args).content) } : TRUE

\* the second run, made after the first one was interrupted
Rerun == run = 2 /\ ints = 1 /\ from = "interrupted"

\* C29: a run of anonymise_eeg made after an interrupted one, with the same
\* arguments, leaves the destination an uninterrupted run leaves, with or
\* without a '.part' file left behind, in place too; it copies the source
\* again only when it finds no destination
C29_Recovery ==
    Rerun =>
        /\ (pc = "done" => dstfile = Uninterrupted)
        /\ (pc \in {"copy", "copying"} => prev = Absent)

\* the first run was interrupted in the middle of the copy and left a
\* '.part' file; the second run has copied again and returned
C29_Witness ==
    /\ Rerun
    /\ pc = "done"
    /\ prev = Absent
    /\ cfg.dst = "new"
    /\ cfg.src = "rec"
    /\ dstfile # srcfile
    /\ fs[part] = Absent

====
